---- MODULE Spec2Model ----
(***************************************************************************)
(* MikoJSCore: the heap and its generational mark-sweep collector (gc.c),  *)
(* the objects the engine allocates in it (string.c, object.c, array.c)    *)
(* and the references the context and the VM hold into it (runtime.c,      *)
(* vm.c).                                                                  *)
(*                                                                         *)
(* A heap object is addressed by its index in `heap`: mjs_gc_alloc bumps   *)
(* heap_ptr and never reuses memory, so the i-th allocation is object i    *)
(* for the lifetime of the collector.  "Reclaiming" an object unlinks its  *)
(* header from its generation list; the bytes stay in the heap buffer.     *)
(***************************************************************************)
EXTENDS Integers, Sequences, FiniteSets, TLC

(* ---- bounds of the model ---- *)
MaxObjs == 3
MaxRoots == 2
MaxProps == 1
MaxElems == 1
MaxWeak == 1
MaxStack == 1
MaxBulk == 120
MaxCollections == 3
MaxFrees == 1
MaxCode == 3
MaxSteps == 8
MaxStatements == 2
MaxLines == 3
MaxArrays == 2
MaxCapacity == 4
MaxDeepSteps == 1500
PushesPerRun == 5
MaxControlSteps == 40

(* ---- program constants ---- *)
NULL == 0
GC_MARK_WHITE == 0
GC_MARK_GRAY == 1
GC_MARK_BLACK == 2
MJS_OK == 0
MJS_ERROR == -1
MJS_ERROR_SYNTAX == -1
MJS_ERROR_RUNTIME == -2
VM_STATE_READY == 0
VM_STATE_RUNNING == 1
VM_STATE_ERROR == 2
VM_STACK_SIZE == 1024
VM_CALL_STACK_SIZE == 256
MJS_TAG_UNDEFINED == 0
MJS_TAG_NULL == 1
MJS_TAG_BOOLEAN == 2
MJS_TAG_NUMBER == 3
MJS_TAG_STRING == 4
MJS_TAG_OBJECT == 5
MJS_TAG_FUNCTION == 6
MJS_TAG_ARRAY == 7
GC_TYPE_STRING == 1
GC_TYPE_ARRAY == 2
GC_TYPE_OBJECT == 3
GC_TYPE_FUNCTION == 4
GC_STATE_IDLE == 0
GC_STATE_MARKING == 1
GC_STATE_SWEEPING == 2
GC_STATE_COMPACTING == 3
GC_INITIAL_HEAP_SIZE == 1048576
GC_GROWTH_FACTOR == 2
GC_YOUNG_GENERATION_SIZE == 262144
GC_INCREMENTAL_STEP_SIZE == 100
PROMOTION_AGE == 2
\* sizeof(mjs_gc_object_header_t) on an LP64 build
GC_HEADER_SIZE == 48

VARIABLES
    heap,       \* the allocated objects, header and payload, in address order
    gc,         \* struct mjs_gc
    weak,       \* the mjs_weak_ref_t structs ever created, by handle
    fired,      \* per handle: how often its callback has been invoked
    ctx,        \* the context: global_object and the VM operand stack
    cycle,      \* history: the incremental cycle in progress
    vm,         \* struct mjs_vm: state, operand stack, call frames
    run,        \* the call of mjs_vm_execute: its position and what it returns
    compiled,   \* the call of mjs_compile_ast: its tree and what it returns
    arrays,     \* the mjs_array_t structs the host has created
    shell       \* the interactive shell: its loop and what it has read

vars == <<heap, gc, weak, fired, ctx, cycle, vm, run, compiled, arrays, shell>>

\* the variables of the host's own calls, which the engine leaves alone
host == <<arrays, shell>>

\* the interpreter's, the compiler's and the host's variables, which the
\* collector's calls leave alone
interp == <<vm, run, compiled, host>>

\* sizeof of the payload struct the constructors request for each type
SizeOf(type) ==
    CASE type = GC_TYPE_STRING -> 40
      [] type = GC_TYPE_ARRAY -> 24
      [] type = GC_TYPE_OBJECT -> 32
      [] OTHER -> 48

Names == {"x"}

\* the machine state the collector's functions read and write
St == [heap |-> heap, gc |-> gc, weak |-> weak, fired |-> fired]

Commit(s) ==
    /\ heap' = s.heap
    /\ gc' = s.gc
    /\ weak' = s.weak
    /\ fired' = s.fired

Objs(s) == 1..Len(s.heap)

Range(q) == {q[i] : i \in 1..Len(q)}

RECURSIVE SumSizes(_, _)
SumSizes(h, q) ==
    IF q = << >> THEN 0
    ELSE h[Head(q)].size + GC_HEADER_SIZE + SumSizes(h, Tail(q))

(* ---- mjs_gc_new ---- *)
DefaultConfig ==
    [incremental |-> TRUE, generational |-> TRUE, compact |-> FALSE,
     collection_threshold |-> 0, max_heap_size |-> 0]

\* the counters of gc->stats that the collector maintains
NoStats ==
    [total_allocations |-> 0, total_deallocations |-> 0,
     collections |-> 0, objects_freed |-> 0,
     heap_size |-> 0, heap_used |-> 0,
     young_generation_size |-> 0, old_generation_size |-> 0]

mjs_gc_new ==
    [state |-> GC_STATE_IDLE,
     heap_size |-> GC_INITIAL_HEAP_SIZE, heap_used |-> 0,
     young |-> << >>, young_size |-> 0, young_capacity |-> 0,
     young_total_size |-> 0, young_threshold |-> GC_YOUNG_GENERATION_SIZE,
     old |-> << >>, old_size |-> 0, old_total_size |-> 0,
     roots |-> << >>, gray_stack |-> << >>, weak_refs |-> << >>,
     stats |-> NoStats,
     config |-> DefaultConfig]

(* ---- marking ---- *)
\* the pointers gc_mark_object follows out of an object, in the order it does
Children(o) ==
    CASE o.type = GC_TYPE_OBJECT ->
            (IF o.prototype # NULL THEN <<o.prototype>> ELSE << >>)
            \o SelectSeq([i \in 1..Len(o.properties) |-> o.properties[i].key],
                         LAMBDA k : k # NULL)
      [] o.type = GC_TYPE_FUNCTION ->
            (IF o.name # NULL THEN <<o.name>> ELSE << >>)
      [] OTHER -> << >>

RECURSIVE gc_mark_object(_, _), MarkEach(_, _)
gc_mark_object(s, obj) ==
    IF obj = NULL THEN s
    ELSE IF s.heap[obj].mark # GC_MARK_WHITE THEN s
    ELSE LET s1 == [s EXCEPT !.heap[obj].mark = GC_MARK_GRAY,
                             !.gc.gray_stack = Append(@, obj)]
             s2 == MarkEach(s1, Children(s.heap[obj]))
         IN  [s2 EXCEPT !.heap[obj].mark = GC_MARK_BLACK]

MarkEach(s, ptrs) ==
    IF ptrs = << >> THEN s
    ELSE MarkEach(gc_mark_object(s, Head(ptrs)), Tail(ptrs))

\* for (i = 0; i < root_count; i++) gc_mark_object(roots[i])
RECURSIVE MarkRootsFrom(_, _)
MarkRootsFrom(s, i) ==
    IF i > Len(s.gc.roots) THEN s
    ELSE MarkRootsFrom(gc_mark_object(s, s.gc.roots[i]), i + 1)

gc_mark_roots(s) == MarkRootsFrom(s, 1)

\* while (gray_count > 0) gc_mark_object(gray_stack[--gray_count])
\* `stepwise` is the incremental caller, which stops after
\* GC_INCREMENTAL_STEP_SIZE objects
RECURSIVE DrainGray(_, _, _)
DrainGray(s, processed, stepwise) ==
    IF \/ s.gc.gray_stack = << >>
       \/ (stepwise /\ processed >= GC_INCREMENTAL_STEP_SIZE)
    THEN s
    ELSE LET n == Len(s.gc.gray_stack)
             obj == s.gc.gray_stack[n]
             s1 == [s EXCEPT !.gc.gray_stack = SubSeq(@, 1, n - 1)]
         IN  DrainGray(gc_mark_object(s1, obj), processed + 1, stepwise)

(* ---- sweeping ---- *)
IsWhite(h, o) == h[o].mark = GC_MARK_WHITE

\* the weak reference pass at the end of gc_sweep, reading the marks in h
WeakCleared(s, h, w) ==
    /\ s.weak[w].object # NULL
    /\ IsWhite(h, s.weak[w].object)

gc_sweep(s) ==
    LET h0 == s.heap
        ykeep == SelectSeq(s.gc.young, LAMBDA o : ~IsWhite(h0, o))
        ygone == SelectSeq(s.gc.young, LAMBDA o : IsWhite(h0, o))
        okeep == SelectSeq(s.gc.old, LAMBDA o : ~IsWhite(h0, o))
        ogone == SelectSeq(s.gc.old, LAMBDA o : IsWhite(h0, o))
        kept == Range(ykeep) \cup Range(okeep)
        h1 == [o \in DOMAIN h0 |->
                 IF o \in kept THEN [h0[o] EXCEPT !.mark = GC_MARK_WHITE]
                 ELSE h0[o]]
        dead(w) == WeakCleared(s, h1, w) \/ s.weak[w].object = NULL
    IN  [heap |-> h1,
         gc |-> [s.gc EXCEPT !.young = ykeep,
                             !.young_size = @ - SumSizes(h0, ygone),
                             !.old = okeep,
                             !.old_size = @ - SumSizes(h0, ogone),
                             !.stats.objects_freed =
                                 @ + Len(ygone) + Len(ogone),
                             !.weak_refs = SelectSeq(@, LAMBDA w : ~dead(w))],
         weak |-> [w \in DOMAIN s.weak |->
                     IF w \in Range(s.gc.weak_refs) /\ dead(w)
                     THEN [s.weak[w] EXCEPT !.object = NULL, !.freed = TRUE]
                     ELSE s.weak[w]],
         fired |-> [w \in DOMAIN s.fired |->
                     IF /\ w \in Range(s.gc.weak_refs)
                        /\ WeakCleared(s, h1, w)
                        /\ s.weak[w].callback # NULL
                     THEN s.fired[w] + 1
                     ELSE s.fired[w]]]

gc_compact(s) == s

(* ---- collections ---- *)
SetState(s, state) == [s EXCEPT !.gc.state = state]

\* the mark phase of mjs_gc_collect: the roots, then the gray stack
MarkPhase(s) == DrainGray(gc_mark_roots(SetState(s, GC_STATE_MARKING)), 0, FALSE)

\* the optional compact phase and the return to idle
CompactPhase(s) ==
    SetState(IF s.gc.config.compact
             THEN gc_compact(SetState(s, GC_STATE_COMPACTING))
             ELSE s,
             GC_STATE_IDLE)

\* gc->stats.collections++
CountCollection(s) == [s EXCEPT !.gc.stats.collections = @ + 1]

\* the sizes are copied into gc->stats at the end of a full collection
gc_update_statistics(s) ==
    [s EXCEPT !.gc.stats.heap_size = s.gc.heap_size,
              !.gc.stats.heap_used = s.gc.heap_used,
              !.gc.stats.young_generation_size = s.gc.young_size,
              !.gc.stats.old_generation_size = s.gc.old_size]

mjs_gc_collect(s) ==
    gc_update_statistics(CountCollection(
        CompactPhase(gc_sweep(SetState(MarkPhase(s), GC_STATE_SWEEPING)))))

\* the young-only sweep of mjs_gc_collect_young: survivors age, and move to
\* the head of the old list once they reach the promotion age
RECURSIVE SweepYoung(_, _)
SweepYoung(s, todo) ==
    IF todo = << >> THEN s
    ELSE LET o == Head(todo)
             sz == s.heap[o].size + GC_HEADER_SIZE
             unlinked == SelectSeq(s.gc.young, LAMBDA x : x # o)
             age == s.heap[o].generation + 1
             s1 == IF IsWhite(s.heap, o)
                   THEN [s EXCEPT !.gc.young = unlinked,
                                  !.gc.young_size = @ - sz,
                                  !.gc.stats.objects_freed = @ + 1]
                   ELSE IF age >= PROMOTION_AGE
                   THEN [s EXCEPT !.heap[o].generation = age,
                                  !.heap[o].mark = GC_MARK_WHITE,
                                  !.gc.young = unlinked,
                                  !.gc.young_size = @ - sz,
                                  !.gc.old = <<o>> \o @,
                                  !.gc.old_size = @ + sz]
                   ELSE [s EXCEPT !.heap[o].generation = age,
                                  !.heap[o].mark = GC_MARK_WHITE]
         IN  SweepYoung(s1, Tail(todo))

\* the gray-stack loop of mjs_gc_collect_young: only young entries are passed
\* to gc_mark_object
RECURSIVE DrainGrayYoung(_)
DrainGrayYoung(s) ==
    IF s.gc.gray_stack = << >> THEN s
    ELSE LET n == Len(s.gc.gray_stack)
             obj == s.gc.gray_stack[n]
             s1 == [s EXCEPT !.gc.gray_stack = SubSeq(@, 1, n - 1)]
         IN  DrainGrayYoung(IF s1.heap[obj].generation = 0
                            THEN gc_mark_object(s1, obj)
                            ELSE s1)

\* the root loop of mjs_gc_collect_young: a root is marked if its header
\* says generation 0
RECURSIVE MarkYoungRootsFrom(_, _)
MarkYoungRootsFrom(s, i) ==
    IF i > Len(s.gc.roots) THEN s
    ELSE MarkYoungRootsFrom(IF s.heap[s.gc.roots[i]].generation = 0
                            THEN gc_mark_object(s, s.gc.roots[i])
                            ELSE s,
                            i + 1)

\* the mark phase of mjs_gc_collect_young
MarkPhaseYoung(s) ==
    DrainGrayYoung(MarkYoungRootsFrom(SetState(s, GC_STATE_MARKING), 1))

\* its sweep walks the young list as it stands when the sweep starts
SweepYoungList(s) == SweepYoung(s, s.gc.young)

mjs_gc_collect_young(s) ==
    IF ~s.gc.config.generational THEN mjs_gc_collect(s)
    ELSE CountCollection(
             SetState(SweepYoungList(SetState(MarkPhaseYoung(s),
                                              GC_STATE_SWEEPING)),
                      GC_STATE_IDLE))

\* one call of mjs_gc_collect_incremental, by the state it finds
IncrementalIdle_NoRoots(s) == SetState(s, GC_STATE_MARKING)

IncrementalIdle(s) == gc_mark_roots(SetState(s, GC_STATE_MARKING))

\* if (gray_count == 0) state = GC_STATE_SWEEPING, after the bounded loop
MarkingDone(s) ==
    IF s.gc.gray_stack = << >> THEN SetState(s, GC_STATE_SWEEPING) ELSE s

IncrementalMarking_Unbounded(s) == MarkingDone(DrainGray(s, 0, FALSE))

IncrementalMarking(s) == MarkingDone(DrainGray(s, 0, TRUE))

IncrementalSweeping(s) ==
    CountCollection(SetState(gc_sweep(s), GC_STATE_IDLE))

IncrementalCompacting(s) == SetState(gc_compact(s), GC_STATE_IDLE)

mjs_gc_collect_incremental(s) ==
    IF ~s.gc.config.incremental THEN mjs_gc_collect(s)
    ELSE CASE s.gc.state = GC_STATE_IDLE -> IncrementalIdle(s)
           [] s.gc.state = GC_STATE_MARKING -> IncrementalMarking(s)
           [] s.gc.state = GC_STATE_SWEEPING -> IncrementalSweeping(s)
           [] OTHER -> IncrementalCompacting(s)

(* ---- allocation ---- *)
\* (double)heap_used / heap_size >= collection_threshold, or the young
\* generation at its capacity
gc_should_collect(s) ==
    \/ s.gc.heap_used >= s.gc.config.collection_threshold * s.gc.heap_size
    \/ (s.gc.config.generational /\ s.gc.young_size >= s.gc.young_capacity)

\* a payload as the constructors leave it
EmptyPayload ==
    [prototype |-> NULL, properties |-> << >>, elements |-> << >>,
     name |-> NULL, data |-> "", extensible |-> TRUE, property_count |-> 0]

HeapFull(s, total_size) == s.gc.heap_used + total_size > s.gc.heap_size

\* the header is initialised and linked at the head of the young list
AllocLink(s, size, type) ==
    [s |-> [s EXCEPT !.heap = Append(@, [type |-> type, size |-> size,
                                         mark |-> GC_MARK_WHITE,
                                         generation |-> 0] @@ EmptyPayload),
                     !.gc.young = <<Len(s.heap) + 1>> \o @,
                     !.gc.young_size = @ + size + GC_HEADER_SIZE,
                     !.gc.heap_used = @ + size + GC_HEADER_SIZE,
                     !.gc.stats.total_allocations = @ + 1],
     ptr |-> Len(s.heap) + 1]

\* still no room after the second collection: grow the heap or refuse
AllocGrow(s, size, type) ==
    IF ~HeapFull(s, size + GC_HEADER_SIZE) THEN AllocLink(s, size, type)
    ELSE IF /\ s.gc.config.max_heap_size > 0
            /\ s.gc.heap_size * GC_GROWTH_FACTOR > s.gc.config.max_heap_size
    THEN [s |-> s, ptr |-> NULL]
    ELSE AllocLink([s EXCEPT !.gc.heap_size = @ * GC_GROWTH_FACTOR],
                   size, type)

\* no room: collect first
AllocSpace(s, size, type) ==
    IF HeapFull(s, size + GC_HEADER_SIZE)
    THEN AllocGrow(mjs_gc_collect(s), size, type)
    ELSE AllocLink(s, size, type)

\* mjs_gc_alloc: [s |-> the state after the call, ptr |-> the object or NULL]
mjs_gc_alloc(s, size, type) ==
    IF size = 0 THEN [s |-> s, ptr |-> NULL]
    ELSE AllocSpace(IF gc_should_collect(s) THEN mjs_gc_collect(s) ELSE s,
                    size, type)

\* mjs_gc_free_object: the list is chosen by the header's generation (0 is
\* the young list, anything else the old list); an object that is not in
\* that list stays where it is, and the list's size and the counter change
\* all the same
\* (a size that goes below zero wraps around in size_t; the model keeps the
\* difference, which no code path reads)
mjs_gc_free_object(s, obj) ==
    IF obj = NULL THEN s
    ELSE IF s.heap[obj].generation = 0
    THEN [s EXCEPT !.gc.young = SelectSeq(@, LAMBDA x : x # obj),
                   !.gc.young_size = @ - (s.heap[obj].size + GC_HEADER_SIZE),
                   !.gc.stats.total_deallocations = @ + 1]
    ELSE [s EXCEPT !.gc.old = SelectSeq(@, LAMBDA x : x # obj),
                   !.gc.old_size = @ - (s.heap[obj].size + GC_HEADER_SIZE),
                   !.gc.stats.total_deallocations = @ + 1]

\* mjs_gc_get_memory_usage, which mjs_get_memory_usage passes on
mjs_gc_get_memory_usage(s) == s.gc.young_total_size + s.gc.old_total_size

(* ---- roots ---- *)
mjs_gc_add_root(s, root) == [s EXCEPT !.gc.roots = Append(@, root)]

mjs_gc_remove_root_DropLast(s, root) ==
    IF root \in Range(s.gc.roots)
    THEN [s EXCEPT !.gc.roots = SubSeq(@, 1, Len(@) - 1)]
    ELSE s

\* the first entry equal to root is overwritten by the last entry
mjs_gc_remove_root(s, root) ==
    LET r == s.gc.roots
        n == Len(r)
        hits == {i \in 1..n : r[i] = root}
        i == CHOOSE k \in hits : \A j \in hits : k <= j
    IN  IF hits = {} THEN s
        ELSE [s EXCEPT !.gc.roots =
                 SubSeq([r EXCEPT ![i] = r[n]], 1, n - 1)]

\* what the two calls return
mjs_gc_add_root_result(s, root) == root # NULL

mjs_gc_remove_root_result(s, root) ==
    root # NULL /\ root \in Range(s.gc.roots)

(* ---- weak references ---- *)
mjs_gc_create_weak_ref(s, target) ==
    [s EXCEPT !.weak = Append(@, [object |-> target, callback |-> NULL,
                                  freed |-> FALSE]),
              !.fired = Append(@, 0),
              !.gc.weak_refs = <<Len(s.weak) + 1>> \o @]

\* what mjs_weak_ref_get(handle) can return: the object field, or anything
\* once gc_sweep has freed the struct the handle points at
mjs_weak_ref_get(s, w) ==
    IF s.weak[w].freed THEN {NULL} \cup Objs(s) ELSE {s.weak[w].object}

(* ---- constructors and field writes (string.c, object.c, array.c) ---- *)
\* a is the result of the allocation: a failed one is passed on
StringInit(a, data) ==
    IF a.ptr = NULL THEN a
    ELSE [s |-> [a.s EXCEPT !.heap[a.ptr].data = data], ptr |-> a.ptr]

mjs_string_new(s, data) ==
    StringInit(mjs_gc_alloc(s, SizeOf(GC_TYPE_STRING), GC_TYPE_STRING), data)

mjs_object_new(s) == mjs_gc_alloc(s, SizeOf(GC_TYPE_OBJECT), GC_TYPE_OBJECT)

mjs_array_new(s) == mjs_gc_alloc(s, SizeOf(GC_TYPE_ARRAY), GC_TYPE_ARRAY)

\* the texts that are interned
InternNames == {"x", "y"}

\* mjs_string_intern over the runtime's table (the newest entry first):
\* [s, ptr, table] as the call leaves them. The scan reads each entry up to
\* the first match; `freed` holds the objects of a heap block that a
\* reallocation has released, and reading one of them is undefined: ub
mjs_string_intern(s, table, freed, data) ==
    LET match == {i \in DOMAIN table : s.heap[table[i]].data = data}
        gone == {i \in DOMAIN table : table[i] \in freed}
        read == {i \in DOMAIN table : \A j \in match : i <= j}
        a == mjs_string_new(s, data)
    IN  IF gone \cap read # {}
        THEN [s |-> s, ptr |-> NULL, table |-> table, ub |-> TRUE]
        ELSE IF match # {}
        THEN [s |-> s, table |-> table, ub |-> FALSE,
              ptr |-> table[CHOOSE i \in match : \A j \in match : i <= j]]
        ELSE IF a.ptr = NULL
        THEN [s |-> a.s, ptr |-> NULL, table |-> table, ub |-> FALSE]
        ELSE [s |-> a.s, ptr |-> a.ptr, table |-> <<a.ptr>> \o table,
              ub |-> FALSE]

\* function.c is not part of the sources: a function object is a
\* GC_TYPE_FUNCTION allocation whose name field the constructor sets
FunctionInit(a, name) ==
    IF a.ptr = NULL THEN a
    ELSE [s |-> [a.s EXCEPT !.heap[a.ptr].name = name], ptr |-> a.ptr]

mjs_function_new(s, name) ==
    FunctionInit(mjs_gc_alloc(s, SizeOf(GC_TYPE_FUNCTION), GC_TYPE_FUNCTION),
                 name)

\* the attributes of a property that is written, enumerated and configured
DefaultAttributes ==
    [writable |-> TRUE, enumerable |-> TRUE, configurable |-> TRUE]

\* index of the first property of obj whose key string reads `key`, or 0
mjs_object_get_property(s, obj, key) ==
    LET ps == s.heap[obj].properties
        hits == {i \in 1..Len(ps) :
                    ps[i].key # NULL /\ s.heap[ps[i].key].data = key}
    IN  IF hits = {} THEN 0 ELSE CHOOSE i \in hits : \A j \in hits : i <= j

\* an existing property is overwritten when it is writable; a new property
\* is prepended with a NULL key, whether or not the object is extensible
mjs_object_set_property(s, obj, key, value) ==
    IF mjs_object_get_property(s, obj, key) # 0
    THEN IF s.heap[obj].properties[
                mjs_object_get_property(s, obj, key)].writable
         THEN [s EXCEPT !.heap[obj].properties[
                            mjs_object_get_property(s, obj, key)].value = value]
         ELSE s
    ELSE [s EXCEPT !.heap[obj].properties =
                       <<[key |-> NULL, value |-> value, writable |-> TRUE,
                          enumerable |-> TRUE, configurable |-> TRUE]>> \o @,
                   !.heap[obj].property_count = @ + 1]

PropertyUpdate(s, obj, existing, value) ==
    [s EXCEPT !.heap[obj].properties[existing].value = value]

\* k is the result of the key's mjs_string_new
PropertyLink(k, obj, value) ==
    [k.s EXCEPT !.heap[obj].properties =
                    <<[key |-> k.ptr, value |-> value, writable |-> TRUE,
                       enumerable |-> TRUE, configurable |-> TRUE]>> \o @,
                !.heap[obj].property_count = @ + 1]

\* the attributes of the property at index i
SetAttributes(s, obj, i, attrs) ==
    [s EXCEPT !.heap[obj].properties[i] =
        [@ EXCEPT !.writable = attrs.writable,
                  !.enumerable = attrs.enumerable,
                  !.configurable = attrs.configurable]]

\* the key of a new property is a fresh mjs_string_new
DefineNew(k, obj, value, attrs) ==
    IF k.ptr = NULL THEN k.s
    ELSE SetAttributes(PropertyLink(k, obj, value), obj, 1, attrs)

\* refused on a non-extensible object and on a non-configurable property
mjs_object_define_property(s, obj, key, value, attrs) ==
    IF ~s.heap[obj].extensible THEN s
    ELSE IF mjs_object_get_property(s, obj, key) = 0
    THEN DefineNew(mjs_string_new(s, key), obj, value, attrs)
    ELSE IF ~s.heap[obj].properties[
                 mjs_object_get_property(s, obj, key)].configurable
    THEN s
    ELSE SetAttributes(
             PropertyUpdate(s, obj, mjs_object_get_property(s, obj, key),
                            value),
             obj, mjs_object_get_property(s, obj, key), attrs)

\* the first property under the key is unlinked unless it is
\* non-configurable
mjs_object_delete_property(s, obj, key) ==
    IF mjs_object_get_property(s, obj, key) = 0 THEN s
    ELSE IF ~s.heap[obj].properties[
                 mjs_object_get_property(s, obj, key)].configurable
    THEN s
    ELSE [s EXCEPT !.heap[obj].properties =
                       SubSeq(@, 1, mjs_object_get_property(s, obj, key) - 1)
                       \o SubSeq(@, mjs_object_get_property(s, obj, key) + 1,
                                 Len(@)),
                   !.heap[obj].property_count = @ - 1]

mjs_object_prevent_extensions(s, obj) ==
    [s EXCEPT !.heap[obj].extensible = FALSE]

mjs_object_seal(s, obj) ==
    [s EXCEPT !.heap[obj].extensible = FALSE,
              !.heap[obj].properties =
                  [i \in DOMAIN @ |-> [@[i] EXCEPT !.configurable = FALSE]]]

mjs_object_freeze(s, obj) ==
    [s EXCEPT !.heap[obj].extensible = FALSE,
              !.heap[obj].properties =
                  [i \in DOMAIN @ |-> [@[i] EXCEPT !.configurable = FALSE,
                                                   !.writable = FALSE]]]

mjs_object_is_sealed(s, obj) ==
    /\ ~s.heap[obj].extensible
    /\ \A i \in DOMAIN s.heap[obj].properties :
          ~s.heap[obj].properties[i].configurable

mjs_object_is_frozen(s, obj) ==
    /\ ~s.heap[obj].extensible
    /\ \A i \in DOMAIN s.heap[obj].properties :
          /\ ~s.heap[obj].properties[i].configurable
          /\ ~s.heap[obj].properties[i].writable

\* the global object's property list is searched and extended in place; a
\* failed mjs_string_new leaves the new property with a NULL key
mjs_context_set_variable(s, global, name, value) ==
    IF global = NULL THEN s
    ELSE IF mjs_object_get_property(s, global, name) # 0
    THEN PropertyUpdate(s, global, mjs_object_get_property(s, global, name),
                        value)
    ELSE PropertyLink(mjs_string_new(s, name), global, value)

mjs_object_set_prototype(s, obj, prototype) ==
    [s EXCEPT !.heap[obj].prototype = prototype]

mjs_array_push(s, arr, value) ==
    [s EXCEPT !.heap[arr].elements = Append(@, value)]

(* ---- reachability, as the tracing contract defines it ---- *)
\* every heap reference an object holds
Refs(o) ==
    {o.prototype, o.name}
    \cup {o.properties[i].key : i \in 1..Len(o.properties)}
    \cup {o.properties[i].value : i \in 1..Len(o.properties)}
    \cup Range(o.elements)

RECURSIVE Closure(_, _)
Closure(h, set) ==
    LET next == set \cup UNION {Refs(h[o]) \ {NULL} : o \in set}
    IN  IF next = set THEN set ELSE Closure(h, next)

Reachable(s) == Closure(s.heap, Range(s.gc.roots))

Linked(s) == Range(s.gc.young) \cup Range(s.gc.old)

OfType(s, type) == {o \in Objs(s) : s.heap[o].type = type}

(* ---- values (mikojs_internal.h, runtime.c) ---- *)
mjs_value_undefined ==
    [tag |-> MJS_TAG_UNDEFINED, boolean |-> FALSE, number |-> 0,
     nan |-> FALSE, string |-> "", ptr |-> NULL]

mjs_value_boolean(b) ==
    [mjs_value_undefined EXCEPT !.tag = MJS_TAG_BOOLEAN, !.boolean = b]

mjs_value_number(n) ==
    [mjs_value_undefined EXCEPT !.tag = MJS_TAG_NUMBER, !.number = n]

\* the double NAN: a number value whose nan flag is set
mjs_value_nan ==
    [mjs_value_undefined EXCEPT !.tag = MJS_TAG_NUMBER, !.nan = TRUE]

mjs_value_string(str) ==
    [mjs_value_undefined EXCEPT !.tag = MJS_TAG_STRING, !.string = str]

\* a value of tag OBJECT, ARRAY or FUNCTION that holds the pointer ptr
mjs_value_ref(tag, ptr) ==
    [mjs_value_undefined EXCEPT !.tag = tag, !.ptr = ptr]

mjs_to_boolean(value) ==
    CASE value.tag \in {MJS_TAG_UNDEFINED, MJS_TAG_NULL} -> FALSE
      [] value.tag = MJS_TAG_BOOLEAN -> value.boolean
      [] value.tag = MJS_TAG_NUMBER -> value.number # 0 /\ ~value.nan
      [] value.tag = MJS_TAG_STRING -> Len(value.string) > 0
      [] value.tag \in {MJS_TAG_OBJECT, MJS_TAG_FUNCTION, MJS_TAG_ARRAY} -> TRUE
      [] OTHER -> FALSE

\* the double that mjs_to_number returns, as a number value; the strings of
\* the model are one decimal digit, which strtod converts, or text without a
\* leading number, on which strtod converts nothing and returns 0
mjs_to_number(value) ==
    CASE value.tag = MJS_TAG_UNDEFINED -> mjs_value_nan
      [] value.tag = MJS_TAG_NULL -> mjs_value_number(0)
      [] value.tag = MJS_TAG_BOOLEAN ->
            mjs_value_number(IF value.boolean THEN 1 ELSE 0)
      [] value.tag = MJS_TAG_NUMBER -> value
      [] value.tag = MJS_TAG_STRING ->
            IF \E d \in 0..9 : ToString(d) = value.string
            THEN mjs_value_number(
                     CHOOSE d \in 0..9 : ToString(d) = value.string)
            ELSE mjs_value_number(0)
      [] OTHER -> mjs_value_nan

(* ---- the interpreter (vm.c) ---- *)
mjs_vm_new ==
    [state |-> VM_STATE_READY, stack |-> << >>, call_stack |-> << >>,
     instructions_executed |-> 0, globals |-> << >>, objects |-> << >>]

\* a push that does not look at the capacity
vm_push_Unchecked(v, value) ==
    [vm |-> [v EXCEPT !.stack = Append(@, value)], ok |-> TRUE]

vm_push(v, value) ==
    IF Len(v.stack) >= VM_STACK_SIZE
    THEN [vm |-> v, ok |-> FALSE]
    ELSE [vm |-> [v EXCEPT !.stack = Append(@, value)], ok |-> TRUE]

vm_pop(v) ==
    IF Len(v.stack) = 0
    THEN [vm |-> v, value |-> mjs_value_undefined]
    ELSE [vm |-> [v EXCEPT !.stack = SubSeq(@, 1, Len(@) - 1)],
          value |-> v.stack[Len(v.stack)]]

vm_peek(v, offset) ==
    IF Len(v.stack) <= offset
    THEN mjs_value_undefined
    ELSE v.stack[Len(v.stack) - offset]

vm_drop(v, count) ==
    IF count > Len(v.stack)
    THEN [v EXCEPT !.stack = << >>]
    ELSE [v EXCEPT !.stack = SubSeq(@, 1, Len(@) - count)]

vm_push_frame(v, bc) ==
    IF Len(v.call_stack) >= VM_CALL_STACK_SIZE
    THEN [vm |-> v, ok |-> FALSE]
    ELSE [vm |-> [v EXCEPT !.call_stack =
                                Append(@, [bytecode |-> bc, pc |-> 0])],
          ok |-> TRUE]

\* a frame pop that reports success and leaves the frame in place
vm_pop_frame_Keep(v) ==
    [vm |-> v, ok |-> Len(v.call_stack) > 0]

vm_pop_frame(v) ==
    IF Len(v.call_stack) = 0
    THEN [vm |-> v, ok |-> FALSE]
    ELSE [vm |-> [v EXCEPT !.call_stack = SubSeq(@, 1, Len(@) - 1)],
          ok |-> TRUE]

vm_current_frame(v) == v.call_stack[Len(v.call_stack)]

vm_add(a, b) ==
    IF a.tag = MJS_TAG_STRING \/ b.tag = MJS_TAG_STRING
    THEN mjs_value_undefined
    ELSE IF mjs_to_number(a).nan \/ mjs_to_number(b).nan
         THEN mjs_value_nan
         ELSE mjs_value_number(mjs_to_number(a).number
                               + mjs_to_number(b).number)

\* mjs_get_object returns NULL for every value whose tag is not OBJECT, so two
\* arrays, or two functions, compare NULL == NULL
vm_equals(a, b) ==
    IF a.tag # b.tag
    THEN FALSE
    ELSE CASE a.tag \in {MJS_TAG_UNDEFINED, MJS_TAG_NULL} -> TRUE
           [] a.tag = MJS_TAG_BOOLEAN -> a.boolean = b.boolean
           [] a.tag = MJS_TAG_NUMBER ->
                 ~a.nan /\ ~b.nan /\ a.number = b.number
           [] a.tag = MJS_TAG_STRING -> a.string = b.string
           [] a.tag = MJS_TAG_OBJECT -> a.ptr = b.ptr
           [] a.tag \in {MJS_TAG_ARRAY, MJS_TAG_FUNCTION} -> NULL = NULL
           [] OTHER -> FALSE

\* the context's global object as the interpreter uses it: a list of
\* properties, each a key and a value
vm_get_variable(v, name) ==
    IF \E i \in DOMAIN v.globals : v.globals[i].key = name
    THEN v.globals[CHOOSE i \in DOMAIN v.globals :
                       /\ v.globals[i].key = name
                       /\ \A j \in 1..(i - 1) : v.globals[j].key # name].value
    ELSE mjs_value_undefined

vm_set_variable(v, name, value) ==
    IF \E i \in DOMAIN v.globals : v.globals[i].key = name
    THEN [v EXCEPT !.globals =
             [i \in DOMAIN @ |->
                 IF /\ @[i].key = name
                    /\ \A j \in 1..(i - 1) : @[j].key # name
                 THEN [@[i] EXCEPT !.value = value] ELSE @[i]]]
    ELSE [v EXCEPT !.globals = <<[key |-> name, value |-> value]>> \o @]

\* the value of the first property of the list whose key is name; a key is
\* <<name>>, or << >> for the NULL key
mjs_object_get_property_value(props, name) ==
    IF \E i \in DOMAIN props : props[i].key = <<name>>
    THEN props[CHOOSE i \in DOMAIN props :
                   /\ props[i].key = <<name>>
                   /\ \A j \in 1..(i - 1) : props[j].key # <<name>>].value
    ELSE mjs_value_undefined

\* mjs_object_set_property on the property list of an object the
\* interpreter created: an existing property is overwritten, a new one is
\* linked first, with the NULL key the function gives it
ObjectSet(props, name, value) ==
    IF \E i \in DOMAIN props : props[i].key = <<name>>
    THEN [i \in DOMAIN props |->
             IF /\ props[i].key = <<name>>
                /\ \A j \in 1..(i - 1) : props[j].key # <<name>>
             THEN [props[i] EXCEPT !.value = value] ELSE props[i]]
    ELSE <<[key |-> << >>, value |-> value]>> \o props

SetPc(v, target) ==
    [v EXCEPT !.call_stack[Len(v.call_stack)].pc = target]

Ok(v) == [vm |-> v, ok |-> TRUE]
Fail(v) == [vm |-> v, ok |-> FALSE]

\* a conditional jump that branches on the opposite of the condition
JumpIf_Inverted(v, target, sense) ==
    IF mjs_to_boolean(vm_pop(v).value) # sense
    THEN Ok(SetPc(vm_pop(v).vm, target))
    ELSE Ok(vm_pop(v).vm)

\* OP_JUMP_IF_TRUE (sense = TRUE) and OP_JUMP_IF_FALSE (sense = FALSE)
JumpIf(v, target, sense) ==
    IF mjs_to_boolean(vm_pop(v).value) = sense
    THEN Ok(SetPc(vm_pop(v).vm, target))
    ELSE Ok(vm_pop(v).vm)

\* the opcodes of the enumeration that the switch has no case for
UnhandledOpcodes ==
    {"OP_PUSH_UNDEFINED", "OP_PUSH_NULL", "OP_PUSH_TRUE", "OP_PUSH_FALSE",
     "OP_HALT"}

vm_execute_instruction(v, instr) ==
    CASE instr.opcode = "OP_NOP" -> Ok(v)
      [] instr.opcode = "OP_LOAD_CONST" ->
            IF instr.operand >= Len(vm_current_frame(v).bytecode.constants)
            THEN Fail(v)
            ELSE vm_push(v, vm_current_frame(v).bytecode
                                .constants[instr.operand + 1])
      [] instr.opcode = "OP_LOAD_VAR" ->
            IF instr.operand >= Len(vm_current_frame(v).bytecode.strings)
            THEN Fail(v)
            ELSE vm_push(v, vm_get_variable(v,
                     vm_current_frame(v).bytecode.strings[instr.operand + 1]))
      [] instr.opcode = "OP_STORE_VAR" ->
            IF instr.operand >= Len(vm_current_frame(v).bytecode.strings)
            THEN Fail(v)
            ELSE Ok(vm_set_variable(vm_pop(v).vm,
                     vm_current_frame(v).bytecode.strings[instr.operand + 1],
                     vm_pop(v).value))
      [] instr.opcode = "OP_POP" -> Ok(vm_pop(v).vm)
      [] instr.opcode = "OP_DUP" -> vm_push(v, vm_peek(v, 0))
      [] instr.opcode = "OP_SWAP" ->
            IF Len(v.stack) < 2
            THEN Fail(v)
            ELSE Ok(vm_push(vm_push(vm_pop(vm_pop(v).vm).vm,
                                    vm_pop(v).value).vm,
                            vm_pop(vm_pop(v).vm).value).vm)
      [] instr.opcode = "OP_ADD" ->
            vm_push(vm_pop(vm_pop(v).vm).vm,
                    vm_add(vm_pop(vm_pop(v).vm).value, vm_pop(v).value))
      [] instr.opcode = "OP_EQ" ->
            vm_push(vm_pop(vm_pop(v).vm).vm,
                    mjs_value_boolean(vm_equals(vm_pop(vm_pop(v).vm).value,
                                                vm_pop(v).value)))
      [] instr.opcode = "OP_NE" ->
            vm_push(vm_pop(vm_pop(v).vm).vm,
                    mjs_value_boolean(~vm_equals(vm_pop(vm_pop(v).vm).value,
                                                 vm_pop(v).value)))
      [] instr.opcode = "OP_NEW_ARRAY" ->
            vm_push([v EXCEPT !.objects = Append(@, << >>)],
                    mjs_value_ref(MJS_TAG_ARRAY, Len(v.objects) + 1))
      [] instr.opcode = "OP_SET_PROP" ->
            IF instr.operand >= Len(vm_current_frame(v).bytecode.strings)
            THEN Fail(v)
            ELSE IF vm_pop(vm_pop(v).vm).value.tag # MJS_TAG_OBJECT
                 THEN Fail(vm_pop(vm_pop(v).vm).vm)
                 ELSE Ok([vm_pop(vm_pop(v).vm).vm EXCEPT
                            !.objects[vm_pop(vm_pop(v).vm).value.ptr] =
                                ObjectSet(@,
                                    vm_current_frame(v).bytecode
                                        .strings[instr.operand + 1],
                                    vm_pop(v).value)])
      [] instr.opcode = "OP_NEW_OBJECT" ->
            vm_push([v EXCEPT !.objects = Append(@, << >>)],
                    mjs_value_ref(MJS_TAG_OBJECT, Len(v.objects) + 1))
      [] instr.opcode = "OP_GET_PROP" ->
            IF instr.operand >= Len(vm_current_frame(v).bytecode.strings)
            THEN Fail(v)
            ELSE IF vm_pop(v).value.tag # MJS_TAG_OBJECT
                 THEN vm_push(vm_pop(v).vm, mjs_value_undefined)
                 ELSE vm_push(vm_pop(v).vm,
                          mjs_object_get_property_value(
                              v.objects[vm_pop(v).value.ptr],
                              vm_current_frame(v).bytecode
                                  .strings[instr.operand + 1]))
      [] instr.opcode = "OP_ARRAY_PUSH" ->
            IF vm_peek(vm_pop(v).vm, 0).tag # MJS_TAG_ARRAY
            THEN Fail(vm_pop(v).vm)
            ELSE Ok(vm_pop(v).vm)
      [] instr.opcode = "OP_CALL" ->
            IF vm_peek(v, instr.operand).tag # MJS_TAG_FUNCTION
            THEN Fail(v)
            ELSE vm_push(vm_drop(v, instr.operand + 1), mjs_value_undefined)
      [] instr.opcode = "OP_RETURN" ->
            IF vm_pop_frame(vm_pop(v).vm).ok
            THEN vm_push(vm_pop_frame(vm_pop(v).vm).vm, vm_pop(v).value)
            ELSE Fail(vm_pop(v).vm)
      [] instr.opcode = "OP_JUMP" -> Ok(SetPc(v, instr.operand))
      [] instr.opcode = "OP_JUMP_IF_TRUE" -> JumpIf(v, instr.operand, TRUE)
      [] instr.opcode = "OP_JUMP_IF_FALSE" -> JumpIf(v, instr.operand, FALSE)
      [] instr.opcode \in UnhandledOpcodes -> Fail(v)

(* ---- the bytecode block (vm.c) ---- *)
mjs_bytecode_new ==
    [instructions |-> << >>, constants |-> << >>, strings |-> << >>]

mjs_bytecode_emit(bc, instruction) ==
    [bc EXCEPT !.instructions = Append(@, instruction)]

\* appends the value and returns its index
mjs_bytecode_add_constant(bc, value) ==
    [bc |-> [bc EXCEPT !.constants = Append(@, value)],
     index |-> Len(bc.constants)]

mjs_bytecode_add_string_Append(bc, str) ==
    [bc |-> [bc EXCEPT !.strings = Append(@, str)],
     index |-> Len(bc.strings)]

\* returns the index of the first equal string, appends when there is none
mjs_bytecode_add_string(bc, str) ==
    IF \E i \in DOMAIN bc.strings : bc.strings[i] = str
    THEN [bc |-> bc,
          index |-> (CHOOSE i \in DOMAIN bc.strings :
                        /\ bc.strings[i] = str
                        /\ \A j \in 1..(i - 1) : bc.strings[j] # str) - 1]
    ELSE [bc |-> [bc EXCEPT !.strings = Append(@, str)],
          index |-> Len(bc.strings)]

Instr(op, operand) == [opcode |-> op, operand |-> operand]

(* ---- the compiler (compiler.c) ---- *)
Node(type, number, string, boolean, kids) ==
    [type |-> type, number |-> number, string |-> string,
     boolean |-> boolean, kids |-> kids]

Compiled(bc) == [bc |-> bc, ok |-> TRUE]
compiler_error(bc) == [bc |-> bc, ok |-> FALSE]

emit_instruction(bc, opcode, operand) ==
    Compiled(mjs_bytecode_emit(bc, Instr(opcode, operand)))

compile_literal(bc, node) ==
    CASE node.type = "AST_LITERAL_NUMBER" ->
            emit_instruction(mjs_bytecode_add_constant(bc, mjs_value_number(node.number)).bc,
                "OP_LOAD_CONST",
                mjs_bytecode_add_constant(bc, mjs_value_number(node.number)).index)
      [] node.type = "AST_LITERAL_STRING" ->
            emit_instruction(mjs_bytecode_add_string(bc, node.string).bc,
                "OP_LOAD_CONST", mjs_bytecode_add_string(bc, node.string).index)
      [] node.type = "AST_LITERAL_BOOLEAN" ->
            emit_instruction(bc, IF node.boolean THEN "OP_PUSH_TRUE"
                                                 ELSE "OP_PUSH_FALSE", 0)

compile_identifier(bc, node) ==
    emit_instruction(mjs_bytecode_add_string(bc, node.string).bc,
        "OP_LOAD_VAR", mjs_bytecode_add_string(bc, node.string).index)

\* the instruction that ends an access to or a write of object.property
EmitProp(r, opcode, property) ==
    IF ~r.ok
    THEN r
    ELSE IF property.type = "AST_IDENTIFIER"
         THEN emit_instruction(mjs_bytecode_add_string(r.bc, property.string).bc,
                  opcode, mjs_bytecode_add_string(r.bc, property.string).index)
         ELSE compiler_error(r.bc)

EmitBinary(r, operator) ==
    IF ~r.ok
    THEN r
    ELSE IF operator = "TOKEN_PLUS"
         THEN emit_instruction(r.bc, "OP_ADD", 0)
         ELSE compiler_error(r.bc)

RECURSIVE compile_expression(_, _)

compile_binary_expression(bc, node) ==
    EmitBinary(IF compile_expression(bc, node.kids[1]).ok
               THEN compile_expression(
                        compile_expression(bc, node.kids[1]).bc, node.kids[2])
               ELSE compile_expression(bc, node.kids[1]),
               node.string)

AssignTo(r, left) ==
    IF ~r.ok
    THEN r
    ELSE IF left.type = "AST_IDENTIFIER"
         THEN emit_instruction(mjs_bytecode_add_string(r.bc, left.string).bc,
                  "OP_STORE_VAR", mjs_bytecode_add_string(r.bc, left.string).index)
         ELSE IF left.type = "AST_MEMBER_EXPRESSION"
              THEN EmitProp(compile_expression(r.bc, left.kids[1]),
                            "OP_SET_PROP", left.kids[2])
              ELSE compiler_error(r.bc)

compile_assignment_expression(bc, node) ==
    AssignTo(compile_expression(bc, node.kids[2]), node.kids[1])

compile_member_expression(bc, node) ==
    EmitProp(compile_expression(bc, node.kids[1]), "OP_GET_PROP",
             node.kids[2])

compile_expression(bc, node) ==
    CASE node.type \in {"AST_LITERAL_NUMBER", "AST_LITERAL_STRING",
                        "AST_LITERAL_BOOLEAN"} -> compile_literal(bc, node)
      [] node.type = "AST_IDENTIFIER" -> compile_identifier(bc, node)
      [] node.type = "AST_BINARY_EXPRESSION" ->
            compile_binary_expression(bc, node)
      [] node.type = "AST_ASSIGNMENT_EXPRESSION" ->
            compile_assignment_expression(bc, node)
      [] node.type = "AST_MEMBER_EXPRESSION" ->
            compile_member_expression(bc, node)
      [] node.type = "AST_OBJECT_EXPRESSION" ->
            emit_instruction(bc, "OP_NEW_OBJECT", 0)
      [] OTHER -> compiler_error(bc)

EmitPop(r) == IF r.ok THEN emit_instruction(r.bc, "OP_POP", 0) ELSE r

\* emits a jump whose operand is the placeholder and returns its index
mjs_bytecode_emit_jump(bc, opcode, placeholder) ==
    [bc |-> mjs_bytecode_emit(bc, Instr(opcode, placeholder)),
     jump_index |-> Len(bc.instructions)]

\* a patch that aims one instruction beyond the current end of the block
mjs_bytecode_patch_jump_Beyond(bc, jump_index) ==
    [bc EXCEPT !.instructions[jump_index + 1].operand =
                    Len(bc.instructions) + 1]

\* the operand of the jump becomes the current instruction count
mjs_bytecode_patch_jump(bc, jump_index) ==
    IF jump_index >= Len(bc.instructions) THEN bc
    ELSE [bc EXCEPT !.instructions[jump_index + 1].operand =
                        Len(bc.instructions)]

RECURSIVE compile_statement(_, _)

RECURSIVE CompileBody(_, _, _)
\* the loop of AST_PROGRAM, and of a block, over the statements from index
\* i on
CompileBody(r, body, i) ==
    IF ~r.ok \/ i > Len(body)
    THEN r
    ELSE CompileBody(compile_statement(r.bc, body[i]), body, i + 1)

compile_block_statement(bc, node) == CompileBody(Compiled(bc), node.kids, 1)

\* compile_if_statement after the alternate: the end jump is patched
IfAfterAlternate(r, end_jump) ==
    IF ~r.ok THEN r ELSE Compiled(mjs_bytecode_patch_jump(r.bc, end_jump))

\* compile_if_statement after the consequent; node.kids[3] is the alternate
IfAfterConsequent(r, else_jump, node) ==
    IF ~r.ok THEN r
    ELSE IF Len(node.kids) = 3
    THEN IfAfterAlternate(
            compile_statement(
                mjs_bytecode_patch_jump(
                    mjs_bytecode_emit_jump(r.bc, "OP_JUMP", 0).bc, else_jump),
                node.kids[3]),
            mjs_bytecode_emit_jump(r.bc, "OP_JUMP", 0).jump_index)
    ELSE Compiled(mjs_bytecode_patch_jump(r.bc, else_jump))

\* compile_if_statement after the test
IfAfterTest(r, node) ==
    IF ~r.ok THEN r
    ELSE IfAfterConsequent(
            compile_statement(
                mjs_bytecode_emit_jump(r.bc, "OP_JUMP_IF_FALSE", 0).bc,
                node.kids[2]),
            mjs_bytecode_emit_jump(r.bc, "OP_JUMP_IF_FALSE", 0).jump_index,
            node)

compile_if_statement(bc, node) ==
    IfAfterTest(compile_expression(bc, node.kids[1]), node)

\* compile_while_statement after the body: the jump back, the exit patched
WhileAfterBody(r, loop_start, exit_jump) ==
    IF ~r.ok THEN r
    ELSE Compiled(mjs_bytecode_patch_jump(
                      emit_instruction(r.bc, "OP_JUMP", loop_start).bc,
                      exit_jump))

\* compile_while_statement after the test
WhileAfterTest(r, loop_start, node) ==
    IF ~r.ok THEN r
    ELSE WhileAfterBody(
            compile_statement(
                mjs_bytecode_emit_jump(r.bc, "OP_JUMP_IF_FALSE", 0).bc,
                node.kids[2]),
            loop_start,
            mjs_bytecode_emit_jump(r.bc, "OP_JUMP_IF_FALSE", 0).jump_index)

\* loop_start is mjs_bytecode_get_current_offset before the test
compile_while_statement(bc, node) ==
    WhileAfterTest(compile_expression(bc, node.kids[1]),
                   Len(bc.instructions), node)

compile_statement(bc, node) ==
    CASE node.type = "AST_PROGRAM" -> CompileBody(Compiled(bc), node.kids, 1)
      [] node.type = "AST_EXPRESSION_STATEMENT" ->
            EmitPop(compile_expression(bc, node.kids[1]))
      [] node.type = "AST_BLOCK_STATEMENT" ->
            compile_block_statement(bc, node)
      [] node.type = "AST_IF_STATEMENT" -> compile_if_statement(bc, node)
      [] node.type = "AST_WHILE_STATEMENT" ->
            compile_while_statement(bc, node)
      [] node.type \in {"AST_BREAK_STATEMENT", "AST_CONTINUE_STATEMENT"} ->
            Compiled(bc)
      [] OTHER -> compiler_error(bc)

CompileRoot(ast) ==
    IF ast.type = "AST_PROGRAM"
    THEN compile_statement(mjs_bytecode_new, ast)
    ELSE compile_expression(mjs_bytecode_new, ast)

\* the block mjs_compile_ast returns; ok = FALSE stands for NULL
mjs_compile_ast(ast) ==
    IF CompileRoot(ast).ok
    THEN emit_instruction(CompileRoot(ast).bc, "OP_RETURN", 0)
    ELSE compiler_error(mjs_bytecode_new)

\* the syntax trees handed to the compiler
Leaves ==
    {Node("AST_LITERAL_NUMBER", n, "", FALSE, << >>) : n \in {1, 2}}
    \cup {Node("AST_LITERAL_STRING", 0, str, FALSE, << >>) :
             str \in {"a", "b"}}
    \cup {Node("AST_IDENTIFIER", 0, name, FALSE, << >>) : name \in {"a", "x"}}
    \cup {Node("AST_LITERAL_BOOLEAN", 0, "", TRUE, << >>)}

\* left + right; left = right with an identifier, a literal, x.a or {}.a
\* on the left; object.property (not computed) with an identifier or a literal as
\* the property
Expressions ==
    Leaves
    \cup {Node("AST_BINARY_EXPRESSION", 0, "TOKEN_PLUS", FALSE, <<l, r>>) :
             l, r \in Leaves}
    \cup {Node("AST_ASSIGNMENT_EXPRESSION", 0, "", FALSE, <<l, r>>) :
             l \in {Node("AST_IDENTIFIER", 0, "x", FALSE, << >>),
                    Node("AST_LITERAL_NUMBER", 1, "", FALSE, << >>),
                    Node("AST_MEMBER_EXPRESSION", 0, "", FALSE,
                         <<Node("AST_IDENTIFIER", 0, "x", FALSE, << >>),
                           Node("AST_IDENTIFIER", 0, "a", FALSE, << >>)>>),
                    Node("AST_MEMBER_EXPRESSION", 0, "", FALSE,
                         <<Node("AST_OBJECT_EXPRESSION", 0, "", FALSE, << >>),
                           Node("AST_IDENTIFIER", 0, "a", FALSE, << >>)>>)},
             r \in Leaves
                    \cup {Node("AST_OBJECT_EXPRESSION", 0, "", FALSE, << >>)}}
    \cup {Node("AST_MEMBER_EXPRESSION", 0, "", FALSE, <<o, p>>) :
             o \in {Node("AST_IDENTIFIER", 0, "x", FALSE, << >>),
                    Node("AST_LITERAL_STRING", 0, "a", FALSE, << >>)},
             p \in {Node("AST_IDENTIFIER", 0, "a", FALSE, << >>),
                    Node("AST_LITERAL_NUMBER", 1, "", FALSE, << >>)}}

Asts ==
    Expressions
    \cup {Node("AST_PROGRAM", 0, "", FALSE, body) :
            body \in UNION {[1..n -> {Node("AST_EXPRESSION_STATEMENT", 0, "",
                                           FALSE, <<e>>) :
                                        e \in Expressions}] :
                            n \in 0..MaxStatements}}

\* statements with tests and loops: name = number, if, while, blocks, break
\* and continue
Number(n) == Node("AST_LITERAL_NUMBER", n, "", FALSE, << >>)
Identifier(name) == Node("AST_IDENTIFIER", 0, name, FALSE, << >>)

Assign(name, n) ==
    Node("AST_EXPRESSION_STATEMENT", 0, "", FALSE,
         <<Node("AST_ASSIGNMENT_EXPRESSION", 0, "", FALSE,
                <<Identifier(name), Number(n)>>)>>)

Block(statements) == Node("AST_BLOCK_STATEMENT", 0, "", FALSE, statements)
If(test, consequent) ==
    Node("AST_IF_STATEMENT", 0, "", FALSE, <<test, consequent>>)
IfElse(test, consequent, alternate) ==
    Node("AST_IF_STATEMENT", 0, "", FALSE, <<test, consequent, alternate>>)
While(test, body) == Node("AST_WHILE_STATEMENT", 0, "", FALSE, <<test, body>>)
Break == Node("AST_BREAK_STATEMENT", 0, "", FALSE, << >>)
Continue == Node("AST_CONTINUE_STATEMENT", 0, "", FALSE, << >>)

Tests == {Number(0), Number(1), Identifier("t")}

Branches ==
    {If(test, Assign("a", 1)) : test \in Tests}
    \cup {IfElse(test, Assign("a", 1), Assign("b", 1)) : test \in Tests}
    \cup {IfElse(test, Block(<<Assign("a", 1), Assign("t", 0)>>),
                  If(Identifier("a"), Assign("b", 1))) : test \in Tests}

Loops ==
    {While(test, Assign("t", 0)) : test \in Tests}
    \cup {While(Identifier("t"), body) :
            body \in {Block(<<Assign("t", 0), Assign("a", 1)>>),
                      Block(<<IfElse(Identifier("a"), Assign("t", 0),
                                     Assign("a", 1))>>),
                      Block(<< >>)}}

Escapes ==
    {While(Identifier("t"), body) :
        body \in {Block(<<Assign("t", 0), Break, Assign("a", 1)>>),
                  Block(<<Break>>),
                  Block(<<Assign("t", 0), Continue, Assign("a", 1)>>),
                  Block(<<If(Identifier("t"), Break), Assign("t", 0)>>)}}

ControlAsts ==
    {Node("AST_PROGRAM", 0, "", FALSE, <<Assign("t", n), s, Assign("c", 1)>>) :
        n \in {0, 1}, s \in Branches \cup Loops \cup Escapes}
    \cup {Node("AST_PROGRAM", 0, "", FALSE, <<s>>) :
            s \in Branches \cup Loops}

NoCompile ==
    [phase |-> "none", ast |-> Node("AST_PROGRAM", 0, "", FALSE, << >>),
     bytecode |-> mjs_bytecode_new, ok |-> FALSE]

NoRun ==
    [phase |-> "none", source |-> "", bytecode |-> << >>, code |-> MJS_OK,
     result |-> mjs_value_undefined, limit |-> MaxSteps]

(* ---- the state after mjs_gc_new, before any context exists ---- *)
NoCycle == [phase |-> "none", start |-> << >>, expect |-> << >>]

Lists(s) == <<s.gc.young, s.gc.old>>

Init ==
    /\ heap = << >>
    /\ gc = mjs_gc_new
    /\ weak = << >>
    /\ fired = << >>
    /\ ctx = [global_object |-> NULL, stack |-> << >>,
              string_table |-> << >>, freed |-> {},
              first |-> [data \in InternNames |-> NULL],
              last |-> [data |-> "", ptr |-> NULL]]
    /\ cycle = NoCycle
    /\ vm = mjs_vm_new
    /\ run = NoRun
    /\ compiled = NoCompile
    /\ arrays = << >>
    /\ shell = [phase |-> "repl", reads |-> 0, input |-> << >>,
                goodbye |-> 0, evaluated |-> << >>, status |-> 0]

Configs ==
    {[DefaultConfig EXCEPT !.incremental = i, !.generational = g,
                           !.compact = c] : i, g, c \in BOOLEAN}

\* a host configures the collector before it allocates
SetConfig ==
    /\ heap = << >>
    /\ gc.config = DefaultConfig
    /\ \E c \in Configs \ {DefaultConfig} : gc' = [gc EXCEPT !.config = c]
    /\ UNCHANGED <<heap, weak, fired, ctx, cycle, interp>>

(* ---- the host's calls ---- *)
Mutate(r) ==
    /\ Commit(r)
    /\ cycle' = NoCycle
    /\ UNCHANGED <<ctx, interp>>

StringNew ==
    /\ Len(heap) < MaxObjs
    /\ \E data \in Names : Mutate(mjs_string_new(St, data).s)

ObjectNew ==
    /\ Len(heap) < MaxObjs
    /\ Mutate(mjs_object_new(St).s)

ArrayNew ==
    /\ Len(heap) < MaxObjs
    /\ Mutate(mjs_array_new(St).s)

FunctionNew ==
    /\ Len(heap) < MaxObjs
    /\ \E name \in OfType(St, GC_TYPE_STRING) \cup {NULL} :
           Mutate(mjs_function_new(St, name).s)

AddRoot ==
    /\ Len(gc.roots) < MaxRoots
    /\ \E root \in Objs(St) : Mutate(mjs_gc_add_root(St, root))

RemoveRoot ==
    \E root \in Range(gc.roots) : Mutate(mjs_gc_remove_root(St, root))

SetPrototype ==
    \E obj \in OfType(St, GC_TYPE_OBJECT) :
        \E prototype \in (OfType(St, GC_TYPE_OBJECT) \ {obj}) \cup {NULL} :
            /\ heap[obj].prototype # prototype
            /\ Mutate(mjs_object_set_prototype(St, obj, prototype))

SetProperty ==
    \E obj \in OfType(St, GC_TYPE_OBJECT) : \E key \in Names :
        \E value \in Objs(St) :
            /\ \/ Len(heap[obj].properties) < MaxProps
               \/ mjs_object_get_property(St, obj, key) # 0
            /\ Mutate(mjs_object_set_property(St, obj, key, value))

DefineProperty ==
    \E obj \in OfType(St, GC_TYPE_OBJECT) : \E key \in Names :
        \E value \in Objs(St) :
            /\ \/ Len(heap[obj].properties) < MaxProps /\ Len(heap) < MaxObjs
               \/ mjs_object_get_property(St, obj, key) # 0
            /\ Mutate(mjs_object_define_property(St, obj, key, value,
                                                 DefaultAttributes))

\* mjs_object_define_property with the attributes the host chooses
DefineAttributes ==
    \E obj \in OfType(St, GC_TYPE_OBJECT) : \E key \in Names :
        \E value \in Objs(St) : \E writable, configurable \in BOOLEAN :
            /\ \/ Len(heap[obj].properties) < MaxProps /\ Len(heap) < MaxObjs
               \/ mjs_object_get_property(St, obj, key) # 0
            /\ Mutate(mjs_object_define_property(
                          St, obj, key, value,
                          [DefaultAttributes EXCEPT
                              !.writable = writable,
                              !.configurable = configurable]))

DeleteProperty ==
    \E obj \in OfType(St, GC_TYPE_OBJECT) : \E key \in Names :
        Mutate(mjs_object_delete_property(St, obj, key))

PreventExtensions ==
    \E obj \in OfType(St, GC_TYPE_OBJECT) :
        Mutate(mjs_object_prevent_extensions(St, obj))

Seal ==
    \E obj \in OfType(St, GC_TYPE_OBJECT) : Mutate(mjs_object_seal(St, obj))

Freeze ==
    \E obj \in OfType(St, GC_TYPE_OBJECT) : Mutate(mjs_object_freeze(St, obj))

ArrayPush ==
    \E arr \in OfType(St, GC_TYPE_ARRAY) : \E value \in Objs(St) :
        /\ Len(heap[arr].elements) < MaxElems
        /\ Mutate(mjs_array_push(St, arr, value))

CreateWeakRef ==
    /\ Len(weak) < MaxWeak
    /\ \E target \in Objs(St) : Mutate(mjs_gc_create_weak_ref(St, target))

\* the host calls the collector at most MaxCollections times more often
\* than it allocates
MayCollect == gc.stats.collections - gc.stats.total_allocations < MaxCollections

CollectFull == MayCollect /\ Mutate(mjs_gc_collect(St))

CollectYoung == MayCollect /\ Mutate(mjs_gc_collect_young(St))

CollectIncremental == MayCollect /\ Mutate(mjs_gc_collect_incremental(St))

\* the same call with its history kept: when a cycle starts from idle the
\* history records the lists a full collection would leave from that state,
\* and keeps them for as long as only this call runs
CycleStep ==
    LET r == mjs_gc_collect_incremental(St)
    IN  /\ gc.config.incremental
        /\ MayCollect
        /\ Commit(r)
        /\ UNCHANGED <<ctx, interp>>
        /\ cycle' =
             IF gc.state = GC_STATE_IDLE
             THEN [phase |-> "running", start |-> Lists(St),
                   expect |-> Lists(mjs_gc_collect(St))]
             ELSE IF cycle.phase = "running" /\ r.gc.state = GC_STATE_IDLE
             THEN [cycle EXCEPT !.phase = "done"]
             ELSE IF cycle.phase = "running" THEN cycle
             ELSE NoCycle

(* ---- the engine: context creation and VM instructions ---- *)
NewContext ==
    /\ ctx.global_object = NULL
    /\ Len(heap) < MaxObjs
    /\ LET a == mjs_object_new(St)
       IN  /\ Commit(a.s)
           /\ ctx' = [ctx EXCEPT !.global_object = a.ptr]
    /\ cycle' = NoCycle
    /\ UNCHANGED interp

OpNewObject ==
    /\ ctx.global_object # NULL
    /\ Len(heap) < MaxObjs
    /\ Len(ctx.stack) < MaxStack
    /\ LET a == mjs_object_new(St)
       IN  /\ Commit(a.s)
           /\ ctx' = [ctx EXCEPT !.stack = Append(@, a.ptr)]
    /\ cycle' = NoCycle
    /\ UNCHANGED interp

OpStoreVar ==
    /\ ctx.global_object # NULL
    /\ ctx.stack # << >>
    /\ \E name \in Names :
         LET n == Len(ctx.stack)
             g == ctx.global_object
         IN  /\ \/ Len(heap[g].properties) < MaxProps /\ Len(heap) < MaxObjs
                \/ mjs_object_get_property(St, g, name) # 0
             /\ Commit(mjs_context_set_variable(St, g, name, ctx.stack[n]))
             /\ ctx' = [ctx EXCEPT !.stack = SubSeq(@, 1, n - 1)]
    /\ cycle' = NoCycle
    /\ UNCHANGED interp

OpPop ==
    /\ ctx.stack # << >>
    /\ ctx' = [ctx EXCEPT !.stack = SubSeq(@, 1, Len(@) - 1)]
    /\ cycle' = NoCycle
    /\ UNCHANGED <<heap, gc, weak, fired, interp>>

(* ---- mjs_vm_execute, one dispatch-loop iteration at a time ---- *)
\* the program of test_control_flow
ControlFlowProgram ==
    [instructions |-> <<Instr("OP_LOAD_CONST", 0), Instr("OP_JUMP_IF_TRUE", 4),
                        Instr("OP_LOAD_CONST", 0), Instr("OP_JUMP", 5),
                        Instr("OP_LOAD_CONST", 1), Instr("OP_RETURN", 0)>>,
     constants |-> <<mjs_value_boolean(TRUE), mjs_value_number(42)>>,
     strings |-> << >>]

\* the instructions hand-built bytecode is drawn from: pool indexes and jump
\* targets inside and outside the block
Alphabet ==
    {Instr("OP_LOAD_CONST", k) : k \in {0, 1, 2, 7}}
    \cup {Instr("OP_JUMP", t) : t \in {0, 9}}
    \cup {Instr("OP_JUMP_IF_TRUE", t) : t \in {0, 9}}
    \cup {Instr(op, 0) : op \in {"OP_NOP", "OP_LOAD_VAR", "OP_STORE_VAR",
                                 "OP_POP", "OP_DUP", "OP_SWAP", "OP_ADD",
                                 "OP_SET_PROP", "OP_ARRAY_PUSH", "OP_CALL",
                                 "OP_RETURN", "OP_JUMP_IF_FALSE", "OP_HALT"}}

\* hand-built blocks of two operands and one binary operation: each operand
\* is a constant, a new object, a new array or a copy of the first operand
BinaryPrograms ==
    {[instructions |-> <<first, second, Instr(op, 0)>>,
      constants |-> <<a, b>>,
      strings |-> << >>] :
        first \in {Instr("OP_LOAD_CONST", 0), Instr("OP_NEW_OBJECT", 0),
                   Instr("OP_NEW_ARRAY", 0)},
        second \in {Instr("OP_LOAD_CONST", 1), Instr("OP_NEW_OBJECT", 0),
                    Instr("OP_NEW_ARRAY", 0), Instr("OP_DUP", 0)},
        op \in {"OP_ADD", "OP_EQ", "OP_NE"},
        a \in {mjs_value_undefined, mjs_value_boolean(TRUE),
               mjs_value_number(1), mjs_value_nan, mjs_value_string("5"),
               mjs_value_string("")},
        b \in {mjs_value_undefined, mjs_value_ref(MJS_TAG_NULL, NULL),
               mjs_value_boolean(TRUE), mjs_value_boolean(FALSE),
               mjs_value_number(1), mjs_value_number(42), mjs_value_nan,
               mjs_value_string("5"), mjs_value_string("x")}}

Programs ==
    BinaryPrograms \cup {ControlFlowProgram} \cup
    {[instructions |-> is,
      constants |-> <<mjs_value_boolean(TRUE), mjs_value_number(42),
                      mjs_value_boolean(FALSE)>>,
      strings |-> <<"x">>] :
        is \in UNION {[1..n -> Alphabet] : n \in 1..MaxCode}}

Running(v) == v.state = VM_STATE_RUNNING /\ Len(v.call_stack) > 0

AtInstruction(v) ==
    /\ Running(v)
    /\ vm_current_frame(v).pc < Len(vm_current_frame(v).bytecode.instructions)

Fetch(v) ==
    vm_current_frame(v).bytecode.instructions[vm_current_frame(v).pc + 1]

\* frame->pc++, the instruction counter, then the instruction
Dispatch(v) ==
    vm_execute_instruction(
        [v EXCEPT !.call_stack[Len(v.call_stack)].pc = @ + 1,
                  !.instructions_executed = @ + 1],
        Fetch(v))

\* the dispatch loop of mjs_vm_execute, followed for fuel instructions
RECURSIVE ExecuteLoop(_, _)
ExecuteLoop(v, fuel) ==
    IF ~Running(v) \/ fuel = 0
    THEN [vm |-> [v EXCEPT !.state = VM_STATE_READY], code |-> MJS_OK]
    ELSE IF ~AtInstruction(v)
    THEN ExecuteLoop(vm_pop_frame(v).vm, fuel)
    ELSE IF Dispatch(v).ok
    THEN ExecuteLoop(Dispatch(v).vm, fuel - 1)
    ELSE [vm |-> [Dispatch(v).vm EXCEPT !.state = VM_STATE_ERROR],
          code |-> MJS_ERROR]

\* the dispatch loop entered with the frame pushed, if it could be
ExecuteFrom(r) ==
    IF ~r.ok THEN [vm |-> r.vm, code |-> MJS_ERROR]
    ELSE ExecuteLoop([r.vm EXCEPT !.state = VM_STATE_RUNNING], MaxSteps)

\* what one call of mjs_vm_execute on the interpreter v returns for bc
mjs_vm_execute(v, bc) ==
    [code |-> ExecuteFrom(vm_push_frame(v, bc)).code,
     result |-> IF ExecuteFrom(vm_push_frame(v, bc)).code = MJS_OK
                THEN vm_peek(ExecuteFrom(vm_push_frame(v, bc)).vm, 0)
                ELSE mjs_value_undefined]

\* mjs_vm_execute up to its dispatch loop, on the block bc; the loop is
\* followed for at most limit instructions of the interpreter
Enter(bc, limit) ==
    /\ run.phase \in {"none", "returned"}
    /\ IF vm_push_frame(vm, bc).ok
       THEN /\ vm' = [vm_push_frame(vm, bc).vm
                          EXCEPT !.state = VM_STATE_RUNNING]
            /\ run' = [NoRun EXCEPT !.phase = "loop", !.bytecode = bc,
                                    !.limit = limit]
       ELSE /\ run' = [NoRun EXCEPT !.phase = "returned", !.bytecode = bc,
                                    !.code = MJS_ERROR, !.limit = limit]
            /\ UNCHANGED vm
    /\ UNCHANGED <<heap, gc, weak, fired, ctx, cycle, compiled, host>>

\* the host hands one block to a new interpreter
VmExecute ==
    /\ run.phase = "none"
    /\ \E bc \in Programs : Enter(bc, MaxSteps)

\* the blocks the host runs one after another on one interpreter
RerunPrograms ==
    {[instructions |-> is, constants |-> <<mjs_value_number(42)>>,
      strings |-> << >>] :
        is \in {<< >>, <<Instr("OP_LOAD_CONST", 0)>>,
                <<Instr("OP_LOAD_CONST", 0), Instr("OP_POP", 0)>>,
                <<Instr("OP_HALT", 0), Instr("OP_LOAD_CONST", 0)>>,
                <<Instr("OP_POP", 0), Instr("OP_HALT", 0),
                  Instr("OP_NEW_OBJECT", 0)>>}}

\* the host hands a block to the interpreter, also after earlier runs
VmExecuteAgain ==
    /\ run.phase \in {"none", "returned"}
    /\ \E bc \in RerunPrograms : Enter(bc, MaxSteps)

\* a block that pushes PushesPerRun values and then faults
StackProgram ==
    [instructions |-> <<Instr("OP_LOAD_CONST", 0)>>
                        \o [i \in 1..(PushesPerRun - 1) |-> Instr("OP_DUP", 0)]
                        \o <<Instr("OP_HALT", 0)>>,
     constants |-> <<mjs_value_number(42)>>,
     strings |-> << >>]

\* the host runs the block on one interpreter again and again, until the
\* operand stack and the call stack are full
VmExecuteDeep ==
    /\ run.phase \in {"none", "returned"}
    /\ Enter(StackProgram, MaxDeepSteps)

\* the host hands the block of mjs_compile_ast to a new interpreter
ExecuteCompiled ==
    /\ run.phase = "none"
    /\ compiled.phase = "done"
    /\ compiled.ok
    /\ Enter(compiled.bytecode, MaxSteps)

\* mjs_eval: the result is set to undefined and OK is returned
Eval ==
    /\ run.phase = "none"
    /\ compiled.phase = "none"
    /\ \E source \in {"var x = 2 + 3 * 4; x", "42", ""} :
         run' = [NoRun EXCEPT !.phase = "returned", !.source = source,
                              !.code = MJS_OK,
                              !.result = mjs_value_undefined]
    /\ UNCHANGED <<heap, gc, weak, fired, ctx, cycle, vm, compiled, host>>

VmStep ==
    /\ run.phase = "loop"
    /\ Running(vm)
    /\ vm.instructions_executed < run.limit
    /\ IF ~AtInstruction(vm)
       THEN /\ vm' = vm_pop_frame(vm).vm
            /\ UNCHANGED run
       ELSE IF Dispatch(vm).ok
            THEN /\ vm' = Dispatch(vm).vm
                 /\ UNCHANGED run
            ELSE /\ vm' = [Dispatch(vm).vm EXCEPT !.state = VM_STATE_ERROR]
                 /\ run' = [run EXCEPT !.phase = "returned",
                                       !.code = MJS_ERROR]
    /\ UNCHANGED <<heap, gc, weak, fired, ctx, cycle, compiled, host>>

VmReturn ==
    /\ run.phase = "loop"
    /\ ~Running(vm)
    /\ vm' = [vm EXCEPT !.state = VM_STATE_READY]
    /\ run' = [run EXCEPT !.phase = "returned", !.code = MJS_OK,
                          !.result = IF Len(vm.stack) > 0
                                     THEN vm_peek(vm, 0)
                                     ELSE mjs_value_undefined]
    /\ UNCHANGED <<heap, gc, weak, fired, ctx, cycle, compiled, host>>

\* the host compiles a program with tests and loops
CompileControl ==
    /\ compiled.phase = "none"
    /\ \E ast \in ControlAsts :
         compiled' = [phase |-> "done", ast |-> ast,
                      bytecode |-> mjs_compile_ast(ast).bc,
                      ok |-> mjs_compile_ast(ast).ok]
    /\ UNCHANGED <<heap, gc, weak, fired, ctx, cycle, vm, run, host>>

\* and hands the block to a new interpreter
ExecuteControl ==
    /\ run.phase = "none"
    /\ compiled.phase = "done"
    /\ compiled.ok
    /\ Enter(compiled.bytecode, MaxControlSteps)

\* the host compiles one syntax tree
CompileAst ==
    /\ compiled.phase = "none"
    /\ \E ast \in Asts :
         compiled' = [phase |-> "done", ast |-> ast,
                      bytecode |-> mjs_compile_ast(ast).bc,
                      ok |-> mjs_compile_ast(ast).ok]
    /\ UNCHANGED <<heap, gc, weak, fired, ctx, cycle, vm, run, host>>

(* ---- the fields of mjs_array_t under the calls of array.c ---- *)
\* the value the host stores in arrays, beside the undefined of empty slots
ArrayValues == {mjs_value_number(1)}

\* the struct mjs_array_new fills in: no element, the capacity asked for or
\* 4, and every slot undefined; slot i of the code is elements[i + 1]
mjs_array_new_fields(initial_capacity) ==
    [length |-> 0,
     capacity |-> IF initial_capacity > 0 THEN initial_capacity ELSE 4,
     elements |->
        [i \in 1..(IF initial_capacity > 0 THEN initial_capacity ELSE 4)
            |-> mjs_value_undefined]]

\* while (new_capacity < required_capacity) new_capacity *= 2
RECURSIVE Doubled(_, _)
Doubled(new_capacity, required_capacity) ==
    IF new_capacity < required_capacity
    THEN Doubled(new_capacity * 2, required_capacity)
    ELSE new_capacity

mjs_array_ensure_capacity(arr, required_capacity) ==
    IF required_capacity <= arr.capacity THEN arr
    ELSE [arr EXCEPT
            !.capacity = Doubled(arr.capacity, required_capacity),
            !.elements =
                [i \in 1..Doubled(arr.capacity, required_capacity) |->
                    IF i <= arr.capacity THEN arr.elements[i]
                    ELSE mjs_value_undefined]]

\* the slots from..to-1 of the code set to undefined
Undefine(arr, from, to) ==
    [arr EXCEPT !.elements =
        [i \in DOMAIN @ |->
            IF from < i /\ i <= to THEN mjs_value_undefined ELSE @[i]]]

mjs_array_resize(arr, new_size) ==
    [Undefine(mjs_array_ensure_capacity(arr, new_size), arr.length, new_size)
        EXCEPT !.length = new_size]

mjs_array_get(arr, index) ==
    IF index >= arr.length THEN mjs_value_undefined
    ELSE arr.elements[index + 1]

mjs_array_set(arr, index, value) ==
    IF index >= arr.length
    THEN [Undefine(mjs_array_ensure_capacity(arr, index + 1),
                   arr.length, index)
            EXCEPT !.length = index + 1, !.elements[index + 1] = value]
    ELSE [arr EXCEPT !.elements[index + 1] = value]

mjs_array_set_length(arr, new_length) ==
    IF new_length > arr.length
    THEN [Undefine(mjs_array_ensure_capacity(arr, new_length),
                   arr.length, new_length) EXCEPT !.length = new_length]
    ELSE [Undefine(arr, new_length, arr.length) EXCEPT !.length = new_length]

mjs_array_push_value(arr, value) ==
    [mjs_array_ensure_capacity(arr, arr.length + 1)
        EXCEPT !.elements[arr.length + 1] = value, !.length = arr.length + 1]

\* pop that leaves the length as it was
mjs_array_pop_KeepLength(arr) ==
    IF arr.length = 0 THEN [arr |-> arr, value |-> mjs_value_undefined]
    ELSE [arr |-> [arr EXCEPT !.elements[arr.length] = mjs_value_undefined],
          value |-> arr.elements[arr.length]]

mjs_array_pop(arr) ==
    IF arr.length = 0 THEN [arr |-> arr, value |-> mjs_value_undefined]
    ELSE [arr |-> [arr EXCEPT !.length = @ - 1,
                              !.elements[arr.length] = mjs_value_undefined],
          value |-> arr.elements[arr.length]]

mjs_array_unshift(arr, value) ==
    [mjs_array_ensure_capacity(arr, arr.length + 1) EXCEPT
        !.elements = [i \in DOMAIN @ |->
                        IF i = 1 THEN value
                        ELSE IF i <= arr.length + 1 THEN arr.elements[i - 1]
                        ELSE @[i]],
        !.length = arr.length + 1]

mjs_array_shift(arr) ==
    IF arr.length = 0 THEN [arr |-> arr, value |-> mjs_value_undefined]
    ELSE [arr |-> [arr EXCEPT
                    !.elements = [i \in DOMAIN @ |->
                                    IF i < arr.length THEN @[i + 1]
                                    ELSE IF i = arr.length
                                    THEN mjs_value_undefined
                                    ELSE @[i]],
                    !.length = @ - 1],
          value |-> arr.elements[1]]

\* the start and the end of mjs_array_slice after the negative indices are
\* counted from the end and both are clamped to the length
SliceStart(arr, start) ==
    IF start < 0
    THEN (IF arr.length + start < 0 THEN 0 ELSE arr.length + start)
    ELSE IF start >= arr.length THEN arr.length ELSE start

SliceEnd(arr, end) ==
    IF end < 0 THEN arr.length + end
    ELSE IF end > arr.length THEN arr.length ELSE end

mjs_array_slice(arr, start, end) ==
    IF SliceEnd(arr, end) <= SliceStart(arr, start)
    THEN mjs_array_new_fields(0)
    ELSE [length |-> SliceEnd(arr, end) - SliceStart(arr, start),
          capacity |-> SliceEnd(arr, end) - SliceStart(arr, start),
          elements |->
            [i \in 1..(SliceEnd(arr, end) - SliceStart(arr, start)) |->
                arr.elements[SliceStart(arr, start) + i]]]

\* start and delete_count of mjs_array_splice after they are clamped
SpliceStart(arr, start) == IF start > arr.length THEN arr.length ELSE start

SpliceCount(arr, start, delete_count) ==
    IF delete_count > arr.length - SpliceStart(arr, start)
    THEN arr.length - SpliceStart(arr, start)
    ELSE delete_count

\* the array mjs_array_splice returns: the elements it takes out
SpliceDeleted(arr, start, delete_count) ==
    [mjs_array_new_fields(SpliceCount(arr, start, delete_count)) EXCEPT
        !.length = SpliceCount(arr, start, delete_count),
        !.elements = [i \in DOMAIN @ |->
                        IF i <= SpliceCount(arr, start, delete_count)
                        THEN arr.elements[SpliceStart(arr, start) + i]
                        ELSE @[i]]]

\* the array mjs_array_splice leaves: the tail moved, the items put in, the
\* length updated and the slots beyond it undefined
mjs_array_splice(arr, start, delete_count, items) ==
    [mjs_array_ensure_capacity(arr,
        arr.length - SpliceCount(arr, start, delete_count) + Len(items))
     EXCEPT
        !.length = arr.length - SpliceCount(arr, start, delete_count)
                        + Len(items),
        !.elements = [i \in DOMAIN @ |->
            IF i <= SpliceStart(arr, start) THEN arr.elements[i]
            ELSE IF i <= SpliceStart(arr, start) + Len(items)
            THEN items[i - SpliceStart(arr, start)]
            ELSE IF i <= arr.length - SpliceCount(arr, start, delete_count)
                            + Len(items)
            THEN arr.elements[i - Len(items)
                                + SpliceCount(arr, start, delete_count)]
            ELSE mjs_value_undefined]]

mjs_array_concat(arr1, arr2) ==
    [mjs_array_new_fields(arr1.length + arr2.length) EXCEPT
        !.length = arr1.length + arr2.length,
        !.elements = [i \in DOMAIN @ |->
                        IF i <= arr1.length THEN arr1.elements[i]
                        ELSE IF i <= arr1.length + arr2.length
                        THEN arr2.elements[i - arr1.length]
                        ELSE @[i]]]

mjs_array_reverse(arr) ==
    [arr EXCEPT !.elements = [i \in DOMAIN @ |->
                                IF i <= arr.length
                                THEN @[arr.length + 1 - i] ELSE @[i]]]

mjs_array_clone(arr) ==
    [mjs_array_new_fields(arr.capacity) EXCEPT
        !.length = arr.length,
        !.elements = [i \in DOMAIN @ |->
                        IF i <= arr.length THEN arr.elements[i] ELSE @[i]]]

\* a call that allocates a new array with MJS_GC_ALLOC and fills it in
Created(arr) ==
    /\ Len(arrays) < MaxArrays
    /\ arr.capacity <= MaxCapacity
    /\ Commit(mjs_array_new(St).s)
    /\ arrays' = Append(arrays, arr)
    /\ cycle' = NoCycle
    /\ UNCHANGED <<ctx, vm, run, compiled, shell>>

\* a call that changes the array a in place
Changed(a, arr) ==
    /\ arr.capacity <= MaxCapacity
    /\ arrays' = [arrays EXCEPT ![a] = arr]
    /\ UNCHANGED <<heap, gc, weak, fired, ctx, cycle, vm, run, compiled,
                   shell>>

ArrNew ==
    /\ Len(arrays) < MaxArrays
    /\ \E initial_capacity \in 0..2 :
            Created(mjs_array_new_fields(initial_capacity))

ArrResize == \E a \in DOMAIN arrays, new_size \in 0..MaxCapacity :
                Changed(a, mjs_array_resize(arrays[a], new_size))

ArrSet == \E a \in DOMAIN arrays, index \in 0..(MaxCapacity - 1),
             value \in ArrayValues :
                Changed(a, mjs_array_set(arrays[a], index, value))

ArrSetLength == \E a \in DOMAIN arrays, new_length \in 0..MaxCapacity :
                    Changed(a, mjs_array_set_length(arrays[a], new_length))

ArrPush == \E a \in DOMAIN arrays, value \in ArrayValues :
                Changed(a, mjs_array_push_value(arrays[a], value))

ArrPop == \E a \in DOMAIN arrays : Changed(a, mjs_array_pop(arrays[a]).arr)

ArrUnshift == \E a \in DOMAIN arrays, value \in ArrayValues :
                Changed(a, mjs_array_unshift(arrays[a], value))

ArrShift == \E a \in DOMAIN arrays :
                Changed(a, mjs_array_shift(arrays[a]).arr)

ArrSlice == \E a \in DOMAIN arrays, start \in -2..3, end \in -2..3 :
                Created(mjs_array_slice(arrays[a], start, end))

ArrSplice ==
    \E a \in DOMAIN arrays, start \in 0..3, delete_count \in 0..3,
       items \in {<< >>, <<mjs_value_number(1)>>,
                  <<mjs_value_number(1), mjs_value_number(1)>>} :
        /\ Len(arrays) < MaxArrays
        /\ mjs_array_splice(arrays[a], start, delete_count, items).capacity
              <= MaxCapacity
        /\ Commit(mjs_array_new(St).s)
        /\ arrays' = Append(
              [arrays EXCEPT ![a] =
                    mjs_array_splice(arrays[a], start, delete_count, items)],
              SpliceDeleted(arrays[a], start, delete_count))
        /\ cycle' = NoCycle
        /\ UNCHANGED <<ctx, vm, run, compiled, shell>>

ArrConcat == \E a \in DOMAIN arrays, b \in DOMAIN arrays :
                Created(mjs_array_concat(arrays[a], arrays[b]))

ArrReverse == \E a \in DOMAIN arrays :
                Changed(a, mjs_array_reverse(arrays[a]))

ArrClone == \E a \in DOMAIN arrays : Created(mjs_array_clone(arrays[a]))

(* ---- the interactive shell (shell.c) ---- *)
\* the lines fgets hands to the loop, character by character
Lines ==
    {<<"e", "x", "i", "t", "\n">>, <<" ", "q", "u", "i", "t", "\t", "\n">>,
     <<"h", "e", "l", "p", "\n">>, <<".", "g", "c", "\n">>,
     <<"x", "\n">>, <<" ", "\n">>, <<"\n">>, <<"q", "u", "i", "t">>}

\* input[strcspn(input, "\n")] = 0
CutAtNewline(str) ==
    SubSeq(str, 1, Len(SelectSeq(str, LAMBDA c : c # "\n")))

\* the text between the first and the last character that is not white
trim_whitespace(str) ==
    LET black == {i \in DOMAIN str : str[i] \notin {" ", "\t", "\n", "\r"}}
    IN  IF black = {} THEN << >>
        ELSE SubSeq(str, CHOOSE i \in black : \A j \in black : i <= j,
                    CHOOSE i \in black : \A j \in black : i >= j)

\* what handle_shell_command returns: true for help, clear, .gc and .stats,
\* false for exit and quit and for everything else
handle_shell_command(input) ==
    input \in {<<"h", "e", "l", "p">>, <<"c", "l", "e", "a", "r">>,
               <<".", "g", "c">>, <<".", "s", "t", "a", "t", "s">>}

\* one round of the loop of repl_loop on the line fgets has read: an empty
\* line is skipped, a handled command is done, anything else is evaluated
ReplLine ==
    /\ shell.phase = "repl"
    /\ shell.reads < MaxLines
    /\ \E line \in Lines :
         /\ shell' = [shell EXCEPT
                !.reads = @ + 1,
                !.input = trim_whitespace(CutAtNewline(line)),
                !.goodbye =
                    IF trim_whitespace(CutAtNewline(line))
                          \in {<<"e", "x", "i", "t">>, <<"q", "u", "i", "t">>}
                    THEN @ + 1 ELSE @,
                !.evaluated =
                    IF \/ trim_whitespace(CutAtNewline(line)) = << >>
                       \/ handle_shell_command(
                              trim_whitespace(CutAtNewline(line)))
                    THEN @
                    ELSE Append(@, trim_whitespace(CutAtNewline(line)))]
         /\ IF trim_whitespace(CutAtNewline(line)) = <<".", "g", "c">>
            THEN Commit(mjs_gc_collect(St))
            ELSE UNCHANGED <<heap, gc, weak, fired>>
    /\ UNCHANGED <<ctx, cycle, vm, run, compiled, arrays>>

\* fgets returns NULL: the loop ends and main returns 0
ReplEnd ==
    /\ shell.phase = "repl"
    /\ shell' = [shell EXCEPT !.phase = "exited", !.status = 0]
    /\ UNCHANGED <<heap, gc, weak, fired, ctx, cycle, vm, run, compiled,
                   arrays>>

\* the object graph under full collections
Next ==
    \/ ObjectNew \/ StringNew \/ ArrayNew \/ FunctionNew
    \/ AddRoot \/ RemoveRoot
    \/ SetPrototype \/ DefineProperty \/ ArrayPush
    \/ CollectFull

Spec == Init /\ [][Next]_vars

\* the generations
NextGen ==
    \/ ObjectNew
    \/ AddRoot \/ RemoveRoot
    \/ SetPrototype
    \/ CollectYoung \/ CollectFull

SpecGen == Init /\ [][NextGen]_vars

\* the mutator against the incremental collector
NextInc ==
    \/ ObjectNew
    \/ AddRoot \/ RemoveRoot
    \/ CollectIncremental

SpecInc == Init /\ [][NextInc]_vars

\* weak references
NextWeak ==
    \/ ObjectNew
    \/ AddRoot \/ RemoveRoot
    \/ CreateWeakRef
    \/ CollectFull \/ CollectYoung \/ CollectIncremental

SpecWeak == Init /\ [][NextWeak]_vars

\* the engine's own references
NextEngine ==
    \/ SetConfig
    \/ NewContext \/ OpNewObject \/ OpStoreVar \/ OpPop
    \/ StringNew \/ ArrayNew \/ FunctionNew
    \/ ArrayPush \/ SetProperty \/ DefineProperty
    \/ CollectFull

SpecEngine == Init /\ [][NextEngine]_vars

\* whole incremental cycles, each started from an idle collector and run
\* with no other call in between, against what mjs_gc_collect would leave
NextCycle ==
    \/ ObjectNew
    \/ AddRoot \/ RemoveRoot
    \/ SetPrototype
    \/ CycleStep

SpecCycle == Init /\ [][NextCycle]_vars

\* the host pins a value as soon as it has allocated it
Pin(a) == IF a.ptr = NULL THEN a.s ELSE mjs_gc_add_root(a.s, a.ptr)

\* a heap of many rooted strings, built while the collector is idle, and
\* the incremental steps over it
BulkString ==
    /\ gc.state = GC_STATE_IDLE
    /\ Len(heap) < MaxBulk
    /\ \E data \in Names : Mutate(Pin(mjs_string_new(St, data)))

NextStep == BulkString \/ CollectIncremental

SpecStep == Init /\ [][NextStep]_vars

\* the allocator under a heap limit: raw allocations of small and of very
\* large payloads, explicit frees, and the counters
AllocSizes == {64, 600000, 3000000}

HeapLimits == {GC_INITIAL_HEAP_SIZE, GC_INITIAL_HEAP_SIZE * GC_GROWTH_FACTOR}

SetHeapLimit ==
    /\ heap = << >>
    /\ gc.config.max_heap_size = 0
    /\ \E m \in HeapLimits : gc' = [gc EXCEPT !.config.max_heap_size = m]
    /\ UNCHANGED <<heap, weak, fired, ctx, cycle, interp>>

\* mjs_gc_alloc(gc, size, GC_TYPE_STRING), whether it returns an object or
\* NULL
GcAlloc ==
    /\ Len(heap) < MaxObjs
    /\ MayCollect
    /\ \E size \in AllocSizes :
           Mutate(mjs_gc_alloc(St, size, GC_TYPE_STRING).s)

\* MJS_REALLOC in mjs_gc_alloc: when the heap has grown in the call that led
\* to s, the block may have moved, and every object allocated before the
\* call then lies in the released block
Released(s) ==
    IF s.gc.heap_size = gc.heap_size
    THEN {ctx.freed}
    ELSE {ctx.freed, ctx.freed \cup Objs(St)}

\* mjs_gc_alloc(gc, size, GC_TYPE_STRING) with the heap block's address
AllocMoving ==
    /\ Len(heap) < MaxObjs
    /\ MayCollect
    /\ \E size \in {64, 600000} :
         /\ Commit(mjs_gc_alloc(St, size, GC_TYPE_STRING).s)
         /\ \E freed \in Released(mjs_gc_alloc(St, size, GC_TYPE_STRING).s) :
                ctx' = [ctx EXCEPT !.freed = freed]
    /\ cycle' = NoCycle
    /\ UNCHANGED interp

\* mjs_string_intern(ctx, data, length): the handle is the one the scan or
\* the allocation yields, or anything when the scan has read a released
\* object; first and last keep what the host has seen, the handle of the
\* first call for each text and the last call
StringIntern ==
    /\ MayCollect
    /\ \E data \in InternNames :
         /\ Len(mjs_string_intern(St, ctx.string_table, ctx.freed,
                                  data).s.heap) <= MaxObjs
         /\ Commit(mjs_string_intern(St, ctx.string_table, ctx.freed,
                                     data).s)
         /\ \E ptr \in IF mjs_string_intern(St, ctx.string_table,
                                             ctx.freed, data).ub
                        THEN {NULL} \cup Objs(St)
                        ELSE {mjs_string_intern(St, ctx.string_table,
                                                ctx.freed, data).ptr},
               freed \in Released(mjs_string_intern(St, ctx.string_table,
                                                    ctx.freed, data).s) :
                ctx' = [ctx EXCEPT
                          !.first[data] = IF @ = NULL THEN ptr ELSE @,
                          !.last = [data |-> data, ptr |-> ptr],
                          !.string_table =
                              mjs_string_intern(St, ctx.string_table,
                                                ctx.freed, data).table,
                          !.freed = freed]
    /\ cycle' = NoCycle
    /\ UNCHANGED interp

\* the host frees an object it no longer pins
FreeObject ==
    /\ gc.stats.total_deallocations < MaxFrees
    /\ \E obj \in Linked(St) \ Range(gc.roots) :
           Mutate(mjs_gc_free_object(St, obj))

NextAlloc ==
    \/ SetHeapLimit
    \/ GcAlloc
    \/ AddRoot \/ RemoveRoot
    \/ CollectFull

SpecAlloc == Init /\ [][NextAlloc]_vars

\* the counters under every kind of collection and explicit frees
NextStats ==
    \/ ObjectNew \/ FreeObject
    \/ AddRoot \/ RemoveRoot
    \/ CollectFull \/ CollectYoung \/ CollectIncremental

SpecStats == Init /\ [][NextStats]_vars

\* objects, their properties and their restrictions
NextObject ==
    \/ ObjectNew
    \/ SetProperty \/ DefineAttributes \/ DeleteProperty
    \/ PreventExtensions \/ Seal \/ Freeze

SpecObject == Init /\ [][NextObject]_vars

\* the fields of arrays under the calls of array.c
NextArray ==
    \/ ArrNew \/ ArrPush \/ ArrPop \/ ArrUnshift \/ ArrShift \/ ArrSet
    \/ ArrSetLength \/ ArrResize \/ ArrSlice \/ ArrSplice \/ ArrConcat
    \/ ArrReverse \/ ArrClone

SpecArray == Init /\ [][NextArray]_vars

\* the shell's loop
NextShell == ReplLine \/ ReplEnd

SpecShell == Init /\ [][NextShell]_vars

\* the interned-string table under allocations and collections
NextIntern == StringIntern \/ StringNew \/ AllocMoving \/ CollectFull

SpecIntern == Init /\ [][NextIntern]_vars

\* hand-built bytecode under the interpreter
NextVM == VmExecute \/ VmStep \/ VmReturn

SpecVM == Init /\ [][NextVM]_vars

\* compiled blocks under the interpreter, and mjs_eval
\* programs with tests and loops, compiled and run
NextControl == CompileControl \/ ExecuteControl \/ VmStep \/ VmReturn

SpecControl == Init /\ [][NextControl]_vars

\* several runs on one interpreter
NextRerun == VmExecuteAgain \/ VmStep \/ VmReturn

SpecRerun == Init /\ [][NextRerun]_vars

\* runs on one interpreter until the operand stack and the call stack are full
NextStack == VmExecuteDeep \/ VmStep

SpecStack == Init /\ [][NextStack]_vars

NextEval == CompileAst \/ ExecuteCompiled \/ VmStep \/ VmReturn \/ Eval

SpecEval == Init /\ [][NextEval]_vars

\* syntax trees under the compiler
SpecCompile == Init /\ [][CompileAst]_vars

(* ---- the claims ---- *)
StNext == [heap |-> heap', gc |-> gc', weak |-> weak', fired |-> fired']

\* objects that are live: linked in a generation list and reachable from a root
Live == Reachable(St) \cap Linked(St)

\* the host holds no pointer to a reclaimed object: every root is linked, and
\* so is every object a linked object refers to
WellFormed ==
    /\ Range(gc.roots) \subseteq Linked(St)
    /\ \A o \in Linked(St) : Refs(heap[o]) \ {NULL} \subseteq Linked(St)

(* C1: a full collection (mjs_gc_collect) never unlinks an object that is
   reachable from a root through prototype links, property keys, property
   values, array elements or function names. *)
C1_FullCollectKeepsReachable ==
    [][(CollectFull /\ WellFormed) => Live \subseteq Linked(StNext)]_vars

(* C2: mjs_gc_collect_young never reclaims a rooted object; each young
   collection a rooted young object survives raises its age by one, and from
   age 2 on it is linked in the old list and no longer in the young list. *)
C2_YoungKeepsRootedAndAges ==
    [][(CollectYoung /\ WellFormed) =>
        \A o \in Range(gc.roots) :
            /\ o \in Linked(StNext)
            /\ o \in Range(gc.young) =>
                   heap'[o].generation = heap[o].generation + 1
            /\ heap'[o].generation >= PROMOTION_AGE =>
                   o \in Range(gc'.old) /\ o \notin Range(gc'.young)]_vars

\* what the engine itself refers to: the global object, the values bound in
\* it, and the values on the operand stack
EngineRefs ==
    (({ctx.global_object} \cup Range(ctx.stack)) \ {NULL})
    \cup (IF ctx.global_object = NULL THEN {}
          ELSE {heap[ctx.global_object].properties[i].value :
                   i \in 1..Len(heap[ctx.global_object].properties)})

(* C3: an object the engine refers to (the context's global object, a global
   bound by STORE_VAR or mjs_context_set_variable, a value on the operand
   stack) is never reclaimed by a collection that a later allocation
   triggers. *)
C3_AllocationKeepsEngineRefs ==
    [][Len(heap') > Len(heap) =>
        (EngineRefs \cap Linked(St)) \subseteq Linked(StNext)]_vars

(* C4: a weak reference yields its target for as long as the target stays
   rooted, whatever full, young or incremental collections run. *)
C4_WeakRefYieldsRootedTarget ==
    [][\A w \in DOMAIN weak :
          (/\ WellFormed
           /\ mjs_weak_ref_get(St, w) = {weak[w].object}
           /\ weak[w].object \in Linked(St)
           /\ weak[w].object \in Range(gc.roots)
           /\ weak[w].object \in Range(gc'.roots))
          => mjs_weak_ref_get(StNext, w) = {weak[w].object}]_vars

(* C5: in the collection that reclaims a weak reference's target the handle
   is cleared (mjs_weak_ref_get on it returns NULL) and its callback fires
   exactly once, in that sweep; it never fires again. *)
C5_WeakRefClearedOnReclaim ==
    [][\A w \in DOMAIN weak :
          /\ (/\ WellFormed
              /\ weak[w].object # NULL
              /\ weak[w].object \in Linked(St)
              /\ weak[w].object \notin Linked(StNext))
             => /\ mjs_weak_ref_get(StNext, w) = {NULL}
                /\ fired[w] = 0
                /\ fired'[w] = 1
          /\ fired[w] = 1 => fired'[w] = 1]_vars

(* C6: whenever the collector is idle every object linked in the young or
   the old list is white. *)
C6_IdleAllWhite ==
    (gc.state = GC_STATE_IDLE /\ WellFormed) =>
        \A o \in Linked(St) : heap[o].mark = GC_MARK_WHITE

(* C7: mjs_gc_collect_young does not reclaim a young object that a live old
   object references. *)
C7_YoungKeepsOldToYoung ==
    [][(CollectYoung /\ WellFormed) =>
        \A y \in Range(gc.young) :
            (\E p \in Range(gc.old) \cap Reachable(St) : y \in Refs(heap[p]))
            => y \in Linked(StNext)]_vars

(* C8: an object that is live when an incremental cycle sweeps, including
   one allocated or rooted after the roots were scanned, is not reclaimed,
   for every interleaving of mjs_gc_alloc, mjs_gc_add_root and
   mjs_gc_remove_root with the incremental steps. *)
C8_IncrementalSweepKeepsLive ==
    [][(CollectIncremental /\ gc.state = GC_STATE_SWEEPING /\ WellFormed) =>
        Live \subseteq Linked(StNext)]_vars

(* C9: from an idle collector, with no mutator activity in between, calling
   mjs_gc_collect_incremental until the state is idle again leaves the same
   objects linked in the young and the old list as one mjs_gc_collect from
   the start state leaves. *)
C9_IncrementalEqualsFull ==
    cycle.phase = "done" => Lists(St) = cycle.expect

\* a finished cycle that reclaimed something and kept something
C9_Witness ==
    /\ cycle.phase = "done"
    /\ Lists(St) # cycle.start
    /\ Linked(St) # {}

\* the state changes mjs_gc_collect_incremental may make
StepOrder ==
    {<<GC_STATE_IDLE, GC_STATE_MARKING>>,
     <<GC_STATE_MARKING, GC_STATE_MARKING>>,
     <<GC_STATE_MARKING, GC_STATE_SWEEPING>>,
     <<GC_STATE_SWEEPING, GC_STATE_COMPACTING>>,
     <<GC_STATE_SWEEPING, GC_STATE_IDLE>>,
     <<GC_STATE_COMPACTING, GC_STATE_IDLE>>}

\* the number of calls of mjs_gc_collect_incremental that are left until
\* the collector is idle again
CallsLeft(g) ==
    CASE g.state = GC_STATE_IDLE -> 0
      [] g.state = GC_STATE_MARKING ->
            IF g.gray_stack = << >> THEN 2
            ELSE 2 + (Len(g.gray_stack) - 1) \div GC_INCREMENTAL_STEP_SIZE
      [] OTHER -> 1

(* C10: with config.incremental set, mjs_gc_collect_incremental moves the
   state only along idle -> marking -> sweeping -> (compacting) -> idle, takes
   at most GC_INCREMENTAL_STEP_SIZE = 100 objects off the gray stack per call
   while marking, and with no mutator activity finitely many calls bring the
   state back to idle: every call made while the collector is not idle
   lowers the number of calls left by one. *)
C10_IncrementalStateMachine ==
    [][CollectIncremental =>
          /\ <<gc.state, gc'.state>> \in StepOrder
          /\ gc.state = GC_STATE_MARKING =>
                Len(gc.gray_stack) - Len(gc'.gray_stack)
                    <= GC_INCREMENTAL_STEP_SIZE
          /\ gc.state # GC_STATE_IDLE => CallsLeft(gc') = CallsLeft(gc) - 1]_vars

\* a marking call has taken its 100 objects and left the rest for the next
C10_Witness ==
    /\ gc.state = GC_STATE_MARKING
    /\ Len(gc.gray_stack) > 0
    /\ Len(gc.gray_stack) = Len(gc.roots) - GC_INCREMENTAL_STEP_SIZE

\* the bytes of the objects that are linked and reachable from a root
LiveBytes ==
    SumSizes(heap, SelectSeq(gc.young \o gc.old, LAMBDA o : o \in Reachable(St)))

(* C11: mjs_gc_alloc runs a minor collection, one that reclaims nothing from
   the old generation, when the young generation's byte count exceeds its
   threshold; an allocation made while the young generation is below its
   threshold and the heap has room runs no collection at all. *)
C11_AllocCollectsYoungAtThreshold ==
    [][(/\ Len(heap') > Len(heap)
        /\ ~HeapFull(St, heap'[Len(heap')].size + GC_HEADER_SIZE))
       => IF gc.young_size > gc.young_threshold
          THEN /\ gc'.stats.collections = gc.stats.collections + 1
               /\ Range(gc.old) \subseteq Range(gc'.old)
          ELSE gc'.stats.collections = gc.stats.collections]_vars

(* C12: with max_heap_size configured, a request that cannot be satisfied
   within max_heap_size (the live bytes plus the request exceed it) makes
   mjs_gc_alloc return NULL, link no new object, and leave heap_used and the
   allocation counter unchanged. *)
C12_AllocFailsAtMaxHeapSize ==
    [][\A size \in AllocSizes :
          (/\ GcAlloc
           /\ StNext = mjs_gc_alloc(St, size, GC_TYPE_STRING).s
           /\ gc.config.max_heap_size > 0
           /\ LiveBytes + size + GC_HEADER_SIZE > gc.config.max_heap_size)
          => /\ mjs_gc_alloc(St, size, GC_TYPE_STRING).ptr = NULL
             /\ Linked(StNext) \subseteq Linked(St)
             /\ gc'.heap_used = gc.heap_used
             /\ gc'.stats.total_allocations = gc.stats.total_allocations]_vars

(* C13: mjs_gc_get_memory_usage returns the bytes currently retained: the
   sum of header + payload sizes of the objects linked in the young and the
   old generation. *)
C13_MemoryUsageIsRetainedBytes ==
    mjs_gc_get_memory_usage(St) =
        SumSizes(heap, gc.young) + SumSizes(heap, gc.old)

\* the counters of gc->stats, in a fixed order
Counters(g) ==
    <<g.stats.total_allocations, g.stats.total_deallocations,
      g.stats.collections, g.stats.objects_freed>>

(* C14: the statistics stay consistent: a successful mjs_gc_alloc raises the
   allocation count by one, a completed collection (full, young, or the last
   step of an incremental cycle) raises the collection count by one, no
   counter decreases, and allocations = objects still linked + objects freed
   by sweeps + objects released through mjs_gc_free_object. *)
C14_StatisticsConsistent ==
    /\ [](gc.stats.total_allocations =
            Cardinality(Linked(St)) + gc.stats.objects_freed
                + gc.stats.total_deallocations)
    /\ [][/\ \A i \in 1..4 : Counters(gc')[i] >= Counters(gc)[i]
          /\ Len(heap') > Len(heap) =>
                gc'.stats.total_allocations = gc.stats.total_allocations + 1
          /\ (CollectFull \/ CollectYoung) =>
                gc'.stats.collections = gc.stats.collections + 1
          /\ (CollectIncremental /\ gc.state # GC_STATE_IDLE
                 /\ gc'.state = GC_STATE_IDLE) =>
                gc'.stats.collections = gc.stats.collections + 1]_vars

\* how often p occurs in the root vector r
Count(r, p) == Cardinality({i \in 1..Len(r) : r[i] = p})

(* C15: mjs_gc_add_root(p) appends one entry for p and returns true;
   mjs_gc_remove_root(p) returns true and removes exactly one entry for p,
   keeping every other entry, when p is a root, and returns false leaving
   the roots unchanged when it is not; add_root(p) followed by
   remove_root(p) restores the previous roots. *)
C15_RootSetAlgebra ==
    \A p \in Objs(St) :
        LET added == mjs_gc_add_root(St, p)
            removed == mjs_gc_remove_root(St, p)
        IN  /\ mjs_gc_add_root_result(St, p)
            /\ added.gc.roots = Append(gc.roots, p)
            /\ mjs_gc_remove_root(added, p) = St
            /\ mjs_gc_remove_root_result(St, p) = (p \in Range(gc.roots))
            /\ p \notin Range(gc.roots) => removed = St
            /\ p \in Range(gc.roots) =>
                  /\ Len(removed.gc.roots) = Len(gc.roots) - 1
                  /\ \A q \in Objs(St) :
                        Count(removed.gc.roots, q) =
                            Count(gc.roots, q) - (IF q = p THEN 1 ELSE 0)

\* two different roots, so that removing the first moves the second, and an
\* object that is not a root
C15_Witness ==
    /\ Len(gc.roots) = 2
    /\ gc.roots[1] # gc.roots[2]
    /\ Objs(St) \ Range(gc.roots) # {}

\* the interpreter is about to execute an instruction with opcode op
Executes(op) ==
    /\ run.phase = "loop"
    /\ AtInstruction(vm)
    /\ Fetch(vm).opcode = op

Pc(v) == vm_current_frame(v).pc

Popped(stack) == SubSeq(stack, 1, Len(stack) - 1)

\* the conditional jump with the given sense, executed on a stack that holds
\* its condition, pops it and continues at the target exactly when the
\* condition converts to that sense, otherwise at the next instruction
CondJumpStep(op, sense) ==
    Executes(op) /\ Len(vm.stack) > 0 =>
        /\ vm'.stack = Popped(vm.stack)
        /\ Len(vm'.call_stack) = Len(vm.call_stack)
        /\ Pc(vm') = IF mjs_to_boolean(vm_peek(vm, 0)) = sense
                     THEN Fetch(vm).operand
                     ELSE Pc(vm) + 1

JumpStep ==
    Executes("OP_JUMP") =>
        /\ vm'.stack = vm.stack
        /\ Len(vm'.call_stack) = Len(vm.call_stack)
        /\ Pc(vm') = Fetch(vm).operand

(* C16: JUMP t continues at instruction index t of the current frame;
   JUMP_IF_TRUE t and JUMP_IF_FALSE t pop the condition and continue at t
   exactly when the condition converts to true, respectively false, and
   otherwise at the next instruction; the program of test_control_flow
   returns the code OK and the number 42. *)
C16_JumpSemantics ==
    /\ [][/\ JumpStep
          /\ CondJumpStep("OP_JUMP_IF_TRUE", TRUE)
          /\ CondJumpStep("OP_JUMP_IF_FALSE", FALSE)]_vars
    /\ [](run.phase = "returned" /\ run.bytecode = ControlFlowProgram =>
            run.code = MJS_OK /\ run.result = mjs_value_number(42))

\* the control-flow program has run to its end and returned 42, after its
\* JUMP_IF_TRUE skipped the two instructions of the other branch
C16_Witness ==
    /\ run.phase = "returned"
    /\ run.bytecode = ControlFlowProgram
    /\ run.result = mjs_value_number(42)
    /\ vm.instructions_executed = 4

(* C17: every jump the interpreter makes, for any bytecode handed to
   mjs_vm_execute, has a target t with 0 <= t < the number of instructions
   of the frame's bytecode. *)
C17_JumpTargetsInRange ==
    [][\A op \in {"OP_JUMP", "OP_JUMP_IF_TRUE", "OP_JUMP_IF_FALSE"} :
          /\ Executes(op)
          /\ Len(vm'.call_stack) = Len(vm.call_stack)
          /\ Pc(vm') = Fetch(vm).operand
          => /\ 0 <= Fetch(vm).operand
             /\ Fetch(vm).operand
                    < Len(vm_current_frame(vm).bytecode.instructions)]_vars

\* the faults the specification lists, as they show before the instruction
\* is executed
Faults ==
    /\ run.phase = "loop"
    /\ AtInstruction(vm)
    /\ \/ Fetch(vm).opcode \in UnhandledOpcodes
       \/ /\ Fetch(vm).opcode = "OP_LOAD_CONST"
          /\ Fetch(vm).operand
                >= Len(vm_current_frame(vm).bytecode.constants)
       \/ /\ Fetch(vm).opcode \in {"OP_LOAD_VAR", "OP_STORE_VAR",
                                    "OP_SET_PROP"}
          /\ Fetch(vm).operand >= Len(vm_current_frame(vm).bytecode.strings)
       \/ /\ Fetch(vm).opcode = "OP_SET_PROP"
          /\ vm_peek(vm, 1).tag # MJS_TAG_OBJECT
       \/ /\ Fetch(vm).opcode = "OP_ARRAY_PUSH"
          /\ vm_peek(vm, 1).tag # MJS_TAG_ARRAY
       \/ /\ Fetch(vm).opcode = "OP_CALL"
          /\ vm_peek(vm, Fetch(vm).operand).tag # MJS_TAG_FUNCTION

(* C19: when an instruction faults, the interpreter's state becomes error,
   the run ends there, and mjs_vm_execute returns the runtime-error code,
   which is neither OK nor the syntax-error code. *)
C19_FaultReturnsRuntimeError ==
    [][Faults =>
          /\ vm'.state = VM_STATE_ERROR
          /\ run'.phase = "returned"
          /\ run'.code = MJS_ERROR_RUNTIME
          /\ run'.code # MJS_OK
          /\ run'.code # MJS_ERROR_SYNTAX]_vars

\* the number of operands an instruction takes from the operand stack
Needs(instr) ==
    CASE instr.opcode \in {"OP_POP", "OP_DUP", "OP_STORE_VAR", "OP_RETURN",
                           "OP_JUMP_IF_TRUE", "OP_JUMP_IF_FALSE"} -> 1
      [] instr.opcode = "OP_ADD" -> 2
      [] OTHER -> 0

(* C20: an instruction that needs more operands than the operand stack
   holds sets the interpreter's state to error and ends the dispatch, with
   a result code other than OK. *)
C20_UnderflowIsAnError ==
    [][/\ run.phase = "loop"
       /\ AtInstruction(vm)
       /\ Needs(Fetch(vm)) > Len(vm.stack)
       => /\ vm'.state = VM_STATE_ERROR
          /\ run'.phase = "returned"
          /\ run'.code # MJS_OK]_vars

RECURSIVE NodesOf(_)
\* the nodes of a syntax tree
NodesOf(node) ==
    {node} \cup UNION {NodesOf(node.kids[i]) : i \in DOMAIN node.kids}

\* the values of the number and string literals of a syntax tree
LiteralValues(ast) ==
    {mjs_value_number(n.number) :
        n \in {m \in NodesOf(ast) : m.type = "AST_LITERAL_NUMBER"}}
    \cup {mjs_value_string(n.string) :
        n \in {m \in NodesOf(ast) : m.type = "AST_LITERAL_STRING"}}

IdentifierNames(ast) ==
    {n.string : n \in {m \in NodesOf(ast) : m.type = "AST_IDENTIFIER"}}

\* instruction i of the block loads constant-pool entry holding value
LoadsConstant(bc, i, value) ==
    /\ bc.instructions[i].opcode = "OP_LOAD_CONST"
    /\ bc.instructions[i].operand < Len(bc.constants)
    /\ bc.constants[bc.instructions[i].operand + 1] = value

(* C18: in every block mjs_compile_ast produces, every LOAD_CONST operand
   is below constant_count and names the constant-pool entry that holds
   the value of a literal of the tree, number and string literals alike
   (and every such literal is loaded that way), and every LOAD_VAR,
   STORE_VAR, GET_PROP and SET_PROP operand is below string_count and names
   an identifier of the tree. *)
C18_OperandsWithinPools ==
    compiled.phase = "done" /\ compiled.ok =>
        /\ \A i \in DOMAIN compiled.bytecode.instructions :
              /\ compiled.bytecode.instructions[i].opcode = "OP_LOAD_CONST"
                    => \E value \in LiteralValues(compiled.ast) :
                          LoadsConstant(compiled.bytecode, i, value)
              /\ compiled.bytecode.instructions[i].opcode
                        \in {"OP_LOAD_VAR", "OP_STORE_VAR", "OP_GET_PROP",
                             "OP_SET_PROP"}
                    => /\ compiled.bytecode.instructions[i].operand
                             < Len(compiled.bytecode.strings)
                       /\ compiled.bytecode.strings[
                             compiled.bytecode.instructions[i].operand + 1]
                             \in IdentifierNames(compiled.ast)
        /\ \A value \in LiteralValues(compiled.ast) :
              \E i \in DOMAIN compiled.bytecode.instructions :
                  LoadsConstant(compiled.bytecode, i, value)

\* OP_RETURN executed with a value on the stack takes it as the frame's
\* result, pops the frame and pushes the result back
ReturnStep ==
    Executes("OP_RETURN") /\ Len(vm.stack) > 0 =>
        /\ vm'.call_stack = Popped(vm.call_stack)
        /\ vm'.stack = vm.stack
        /\ vm'.state = VM_STATE_RUNNING

\* a frame whose pc has reached the instruction count is popped and the
\* operand stack stays as it is
FrameEndStep ==
    run.phase = "loop" /\ Running(vm) /\ ~AtInstruction(vm) =>
        /\ vm'.call_stack = Popped(vm.call_stack)
        /\ vm'.stack = vm.stack
        /\ vm'.instructions_executed = vm.instructions_executed
        /\ run' = run

\* the dispatch loop has ended without a fault
NormalExitStep ==
    run.phase = "loop" /\ vm.state = VM_STATE_RUNNING /\ vm.call_stack = << >>
        => /\ run'.phase = "returned"
           /\ run'.code = MJS_OK
           /\ vm'.state = VM_STATE_READY
           /\ vm'.stack = vm.stack
           /\ run'.result = IF vm.stack = << >>
                            THEN mjs_value_undefined
                            ELSE vm.stack[Len(vm.stack)]

(* C21: on normal exit mjs_vm_execute returns OK with the state back at
   ready and reports the topmost operand-stack value, or undefined when the
   stack is empty; RETURN pops the top of stack, pops the frame and pushes
   the value back; a frame whose pc reaches the instruction count is popped
   without a change of the operand stack. *)
C21_NormalExit ==
    [][ReturnStep /\ FrameEndStep /\ NormalExitStep]_vars

\* a block that pushes 42 and returns it has run to its normal exit
C21_Witness ==
    /\ run.phase = "returned"
    /\ run.code = MJS_OK
    /\ run.bytecode.instructions
         = <<Instr("OP_LOAD_CONST", 1), Instr("OP_RETURN", 0)>>
    /\ run.result = mjs_value_number(42)
    /\ vm.state = VM_STATE_READY

(* C22: executing HALT stops the interpreter in the defined way: the state
   does not become error, no further instruction is executed, and the run
   ends as a normal exit with the code OK. *)
C22_HaltIsNormalExit ==
    [][Executes("OP_HALT") =>
          /\ vm'.state # VM_STATE_ERROR
          /\ run'.code = MJS_OK]_vars

\* the value each literal-pushing opcode stands for
PushedValue(op) ==
    CASE op = "OP_PUSH_UNDEFINED" -> mjs_value_undefined
      [] op = "OP_PUSH_NULL" -> mjs_value_ref(MJS_TAG_NULL, NULL)
      [] op = "OP_PUSH_TRUE" -> mjs_value_boolean(TRUE)
      [] op = "OP_PUSH_FALSE" -> mjs_value_boolean(FALSE)

(* C23: the opcodes mjs_compile_ast emits for boolean, null and undefined
   literals are executed without a fault: PUSH_UNDEFINED, PUSH_NULL,
   PUSH_TRUE and PUSH_FALSE each push their value and grow the operand
   stack by exactly one. *)
C23_CompiledPushesExecute ==
    [][\A op \in {"OP_PUSH_UNDEFINED", "OP_PUSH_NULL", "OP_PUSH_TRUE",
                  "OP_PUSH_FALSE"} :
          Executes(op) =>
              /\ vm'.state # VM_STATE_ERROR
              /\ run'.phase = "loop"
              /\ vm'.stack = Append(vm.stack, PushedValue(op))]_vars

(* C25: mjs_eval of `var x = 2 + 3 * 4; x` on a new runtime and context
   returns OK and the number 14, the value of the last expression
   statement. *)
C25_EvalReturnsLastValue ==
    run.phase = "returned" /\ run.source = "var x = 2 + 3 * 4; x" =>
        /\ run.code = MJS_OK
        /\ run.result = mjs_value_number(14)

(* C26: SET_PROP executed on the operands the compiler pushes for
   obj.prop = value, the value first and the object on top of it, with obj
   an object, stores the value under that property of obj and does not
   fault. *)
C26_SetPropStoresValue ==
    [][/\ Executes("OP_SET_PROP")
       /\ Fetch(vm).operand < Len(vm_current_frame(vm).bytecode.strings)
       /\ vm_peek(vm, 0).tag = MJS_TAG_OBJECT
       => /\ vm'.state # VM_STATE_ERROR
          /\ mjs_object_get_property_value(
                 vm'.objects[vm_peek(vm, 0).ptr],
                 vm_current_frame(vm).bytecode
                     .strings[Fetch(vm).operand + 1]) = vm_peek(vm, 1)]_vars

\* the two operands of a binary operation: a under b, b on top
OperandA == vm_peek(vm, 1)

OperandB == vm_peek(vm, 0)

\* the operand stack after a binary operation has replaced its operands
BinaryResult(value) ==
    /\ Len(vm.stack) >= 2
    /\ vm'.stack = Append(Popped(Popped(vm.stack)), value)

\* the text of a value in a concatenation
Text(value) ==
    CASE value.tag = MJS_TAG_UNDEFINED -> "undefined"
      [] value.tag = MJS_TAG_NULL -> "null"
      [] value.tag = MJS_TAG_BOOLEAN ->
            IF value.boolean THEN "true" ELSE "false"
      [] value.tag = MJS_TAG_NUMBER ->
            IF value.nan THEN "NaN" ELSE ToString(value.number)
      [] value.tag = MJS_TAG_STRING -> value.string
      [] value.tag = MJS_TAG_OBJECT -> "[object Object]"
      [] value.tag = MJS_TAG_FUNCTION -> "[object Function]"
      [] value.tag = MJS_TAG_ARRAY -> "[object Array]"

\* the sum of two numbers, NaN when either is NaN
Sum(x, y) ==
    IF x.nan \/ y.nan
    THEN mjs_value_nan
    ELSE mjs_value_number(x.number + y.number)

(* C24: ADD pops b and then a and pushes one value: when either operand is
   a string, the concatenation of the texts of a and b ("5" + 1 is "51");
   otherwise the sum of the two operands converted to numbers. *)
C24_AddConcatenatesStrings ==
    [][Executes("OP_ADD") /\ Len(vm.stack) >= 2 =>
          BinaryResult(
              IF MJS_TAG_STRING \in {OperandA.tag, OperandB.tag}
              THEN mjs_value_string(Text(OperandA) \o Text(OperandB))
              ELSE Sum(mjs_to_number(OperandA),
                       mjs_to_number(OperandB)))]_vars

\* strict equality: same tag and same payload or reference, NaN excepted
StrictlyEqual(a, b) ==
    /\ a = b
    /\ ~(a.tag = MJS_TAG_NUMBER /\ a.nan)

(* C28: EQ and NE compare strictly: values of different tags are never
   equal, undefined equals undefined and null equals null, booleans and
   numbers compare by payload with NaN unequal to itself, strings by their
   bytes, and objects, arrays and functions by reference, so that two
   distinct arrays are not equal. *)
C28_EqualityIsStrict ==
    [][/\ Executes("OP_EQ") /\ Len(vm.stack) >= 2 =>
            BinaryResult(
                mjs_value_boolean(StrictlyEqual(OperandA, OperandB)))
       /\ Executes("OP_NE") /\ Len(vm.stack) >= 2 =>
            BinaryResult(
                mjs_value_boolean(~StrictlyEqual(OperandA, OperandB)))]_vars

\* adding value to the constant pool of bc: the index is the previous count,
\* the value is appended, and nothing else of the block changes
ConstantAppended(bc, value) ==
    /\ mjs_bytecode_add_constant(bc, value).index = Len(bc.constants)
    /\ mjs_bytecode_add_constant(bc, value).bc
         = [bc EXCEPT !.constants = bc.constants \o <<value>>]

\* the index of the first string of the pool equal to str, counted from 0
FirstIndex(strings, str) ==
    CHOOSE i \in 0..(Len(strings) - 1) :
        /\ strings[i + 1] = str
        /\ \A j \in 1..i : strings[j] # str

\* adding str to the string pool of bc: the first equal string's index and
\* an unchanged block, or the string appended at the previous count
StringAdded(bc, str) ==
    IF \E i \in DOMAIN bc.strings : bc.strings[i] = str
    THEN /\ mjs_bytecode_add_string(bc, str).index
              = FirstIndex(bc.strings, str)
         /\ mjs_bytecode_add_string(bc, str).bc = bc
    ELSE /\ mjs_bytecode_add_string(bc, str).index = Len(bc.strings)
         /\ mjs_bytecode_add_string(bc, str).bc
              = [bc EXCEPT !.strings = bc.strings \o <<str>>]

\* adding str a second time returns the same index and changes nothing, and
\* the indices of the strings already in the pool stay what they were
StringAddedTwice(bc, str) ==
    /\ mjs_bytecode_add_string(mjs_bytecode_add_string(bc, str).bc, str)
         = mjs_bytecode_add_string(bc, str)
    /\ Len(mjs_bytecode_add_string(bc, str).bc.strings)
         <= Len(bc.strings) + 1
    /\ \A i \in DOMAIN bc.strings :
          /\ mjs_bytecode_add_string(bc, str).bc.strings[i] = bc.strings[i]
          /\ mjs_bytecode_add_string(mjs_bytecode_add_string(bc, str).bc,
                                     bc.strings[i]).index
               = mjs_bytecode_add_string(bc, bc.strings[i]).index

(* C27: the pools are append-only: on every block the compiler has built,
   mjs_bytecode_add_constant returns the previous constant count and leaves
   the existing entries as they are; mjs_bytecode_add_string returns the
   index of the first equal string when there is one and appends otherwise,
   so that adding a string twice returns the same index, grows the pool by
   at most one and changes no earlier index; and no string has been added
   to a compiled block's pool twice. *)
C27_PoolsAppendOnly ==
    /\ \A value \in {mjs_value_number(1), mjs_value_number(42),
                     mjs_value_string("a")} :
          ConstantAppended(compiled.bytecode, value)
    /\ \A str \in {"a", "b", "x", ""} :
          /\ StringAdded(compiled.bytecode, str)
          /\ StringAddedTwice(compiled.bytecode, str)
    /\ \A i, j \in DOMAIN compiled.bytecode.strings :
          compiled.bytecode.strings[i] = compiled.bytecode.strings[j]
              => i = j

\* a compiled block with two strings in its pool, one of them named by two
\* instructions, and a constant
C27_Witness ==
    /\ compiled.phase = "done"
    /\ compiled.ok
    /\ Len(compiled.bytecode.strings) = 2
    /\ Len(compiled.bytecode.constants) >= 1
    /\ \E i, j \in DOMAIN compiled.bytecode.instructions :
          /\ i < j
          /\ compiled.bytecode.instructions[i].opcode = "OP_LOAD_VAR"
          /\ compiled.bytecode.instructions[j].opcode = "OP_SET_PROP"
          /\ compiled.bytecode.instructions[i].operand
               = compiled.bytecode.instructions[j].operand

(* C29: every mjs_string_intern(s) call returns the handle that the first
   call for s returned, whatever interning of other strings, mjs_string_new
   calls, allocations and collections lie between the two; and the handles
   of different strings are different. *)
C29_InternIsCanonical ==
    /\ ctx.last.data \in InternNames =>
          ctx.last.ptr = ctx.first[ctx.last.data]
    /\ \A d1, d2 \in InternNames :
          d1 # d2 /\ ctx.first[d1] # NULL => ctx.first[d1] # ctx.first[d2]

(* C30: after any collection the interned-string table holds no stale
   entry: every string linked in the table is still linked in a generation
   list, the sweep having removed the ones it reclaimed. *)
C30_TableHoldsLiveStrings ==
    gc.stats.collections > 0 =>
        Range(ctx.string_table) \subseteq Linked(St)

(* C37: after every successful mjs_gc_alloc, whatever the size of the
   request, heap_used is at most heap_size: the payload handed out lies
   inside the heap, also when the heap had to grow for it. *)
C37_AllocStaysInsideHeap ==
    [][Len(heap') > Len(heap) => gc'.heap_used <= gc'.heap_size]_vars

\* the call mjs_object_set_property(obj, key, value) is the step taken
SetsProperty(obj, key, value) ==
    /\ SetProperty
    /\ StNext = mjs_object_set_property(St, obj, key, value)

\* the value a get of key on obj returns after the step, NULL for undefined
GetAfter(obj, key) ==
    IF mjs_object_get_property(StNext, obj, key) = 0
    THEN NULL
    ELSE heap'[obj].properties[
             mjs_object_get_property(StNext, obj, key)].value

(* C31: after mjs_object_set_property(obj, k, v) on an extensible object
   (whose property k, if there is one, is writable) a get of k returns v and
   has_property(obj, k) is true; a set of a key that is there adds no entry;
   property_count is the length of the property chain. *)
C31_SetThenGet ==
    [][\A obj \in OfType(St, GC_TYPE_OBJECT), key \in Names,
          value \in Objs(St) :
          (/\ SetsProperty(obj, key, value)
           /\ heap[obj].extensible
           /\ mjs_object_get_property(St, obj, key) # 0 =>
                  heap[obj].properties[
                      mjs_object_get_property(St, obj, key)].writable)
          => /\ mjs_object_get_property(StNext, obj, key) # 0
             /\ GetAfter(obj, key) = value
             /\ mjs_object_get_property(St, obj, key) # 0 =>
                    heap'[obj].property_count = heap[obj].property_count
             /\ heap'[obj].property_count = Len(heap'[obj].properties)]_vars

\* the values of the properties of obj, in chain order
Values(s, obj) ==
    [i \in DOMAIN s.heap[obj].properties |-> s.heap[obj].properties[i].value]

(* C40: restrictions are permanent: a non-extensible object stays
   non-extensible and no step adds a property to it; a sealed object stays
   sealed; a frozen object stays frozen and its properties keep their
   values. *)
C40_RestrictionsArePermanent ==
    [][\A obj \in OfType(St, GC_TYPE_OBJECT) :
          /\ ~heap[obj].extensible =>
                /\ ~heap'[obj].extensible
                /\ Len(heap'[obj].properties) <= Len(heap[obj].properties)
          /\ mjs_object_is_sealed(St, obj) =>
                mjs_object_is_sealed(StNext, obj)
          /\ mjs_object_is_frozen(St, obj) =>
                /\ mjs_object_is_frozen(StNext, obj)
                /\ Values(StNext, obj) = Values(St, obj)]_vars

(* C33: the commands exit and quit end the shell's loop: when the line read
   is either of them the loop is left, the line is not evaluated as source,
   and the process exits with the code 0. *)
C33_ExitEndsTheLoop ==
    [][(/\ shell'.reads = shell.reads + 1
        /\ shell'.input \in {<<"e", "x", "i", "t">>, <<"q", "u", "i", "t">>})
       => /\ shell'.phase = "exited"
          /\ shell'.status = 0
          /\ shell'.evaluated = shell.evaluated]_vars

(* C32: every array the calls of array.c have produced has
   0 <= length <= capacity (and as many slots as its capacity), and a push
   followed by a pop on it returns the value pushed and leaves the length and
   the elements below it as they were. *)
PushPop(arr, value) == mjs_array_pop(mjs_array_push_value(arr, value))

C32_ArraysStayInBounds ==
    \A a \in DOMAIN arrays :
        /\ 0 <= arrays[a].length
        /\ arrays[a].length <= arrays[a].capacity
        /\ DOMAIN arrays[a].elements = 1..arrays[a].capacity
        /\ \A value \in ArrayValues :
            /\ PushPop(arrays[a], value).value = value
            /\ PushPop(arrays[a], value).arr.length = arrays[a].length
            /\ \A index \in 0..(arrays[a].length - 1) :
                  mjs_array_get(PushPop(arrays[a], value).arr, index)
                      = mjs_array_get(arrays[a], index)

\* an array full to a capacity it has grown to, beside a second array
C32_Witness ==
    /\ Len(arrays) = MaxArrays
    /\ \E a \in DOMAIN arrays :
        /\ arrays[a].length = MaxCapacity
        /\ arrays[a].capacity = MaxCapacity
        /\ arrays[a].elements[MaxCapacity] \in ArrayValues
        /\ arrays[a].elements[1] \in ArrayValues

(* C34: executing a block the compiler produced never pops from an empty
   operand stack: every instruction finds on the stack at least as many
   values as it pops. *)
Pops(opcode) ==
    CASE opcode \in {"OP_ADD", "OP_SET_PROP"} -> 2
      [] opcode \in {"OP_POP", "OP_STORE_VAR", "OP_RETURN", "OP_GET_PROP",
                     "OP_JUMP_IF_TRUE", "OP_JUMP_IF_FALSE"} -> 1
      [] OTHER -> 0

C34_NeverPopsEmptyStack ==
    [][(/\ run.phase = "loop"
        /\ AtInstruction(vm)
        /\ run.bytecode = compiled.bytecode
        /\ vm'.instructions_executed = vm.instructions_executed + 1)
       => Len(vm.stack) >= Pops(Fetch(vm).opcode)]_vars

(* C35: a run of mjs_vm_execute depends on its block only: whatever ran
   before on the same interpreter, the code it returns, and the result when
   the code is MJS_OK, are those of the same block on a new interpreter. *)
C35_RunsAreIndependent ==
    run.phase = "returned" =>
        /\ run.code = mjs_vm_execute(mjs_vm_new, run.bytecode).code
        /\ run.code = MJS_OK =>
              run.result = mjs_vm_execute(mjs_vm_new, run.bytecode).result

(* C36: in every state of the interpreter the operand stack holds at most
   VM_STACK_SIZE values and the call stack at most VM_CALL_STACK_SIZE frames;
   an instruction that pushes on a full operand stack fails and leaves it as
   it is, and a pop on the empty stack leaves it empty. *)
C36_StacksStayInBounds ==
    /\ Len(vm.stack) <= VM_STACK_SIZE
    /\ Len(vm.call_stack) <= VM_CALL_STACK_SIZE
    /\ vm_pop(vm_drop(vm, Len(vm.stack))).vm.stack = << >>
    /\ (Len(vm.stack) = VM_STACK_SIZE /\ AtInstruction(vm)
            /\ Fetch(vm).opcode \in {"OP_LOAD_CONST", "OP_DUP"})
        => ~Dispatch(vm).ok /\ Dispatch(vm).vm.stack = vm.stack
    /\ Len(vm.call_stack) = VM_CALL_STACK_SIZE
        => ~vm_push_frame(vm, StackProgram).ok

\* both stacks full, and a run refused for want of a call frame
C36_Witness ==
    /\ Len(vm.stack) = VM_STACK_SIZE
    /\ Len(vm.call_stack) = VM_CALL_STACK_SIZE
    /\ run.phase = "returned"
    /\ run.code = MJS_ERROR
    /\ vm.state = VM_STATE_ERROR

(* ---- what a program of ControlAsts means: the variables after it ---- *)
ControlNames == {"t", "a", "b", "c"}

Outcome(env, signal) == [env |-> env, signal |-> signal]

ValueOf(node, env) ==
    IF node.type = "AST_LITERAL_NUMBER" THEN mjs_value_number(node.number)
    ELSE env[node.string]

RECURSIVE Meaning(_, _, _)
RECURSIVE MeaningOfList(_, _, _, _)

MeaningOfRest(list, i, r, fuel) ==
    IF r.signal # "normal" THEN r
    ELSE MeaningOfList(list, i + 1, r.env, fuel)

MeaningOfList(list, i, env, fuel) ==
    IF i > Len(list) THEN Outcome(env, "normal")
    ELSE MeaningOfRest(list, i, Meaning(list[i], env, fuel), fuel)

MeaningOfLoop(node, r, fuel) ==
    IF r.signal = "break" THEN Outcome(r.env, "normal")
    ELSE Meaning(node, r.env, fuel - 1)

Meaning(node, env, fuel) ==
    CASE node.type = "AST_EXPRESSION_STATEMENT" ->
            Outcome([env EXCEPT ![node.kids[1].kids[1].string] =
                            ValueOf(node.kids[1].kids[2], env)], "normal")
      [] node.type = "AST_BREAK_STATEMENT" -> Outcome(env, "break")
      [] node.type = "AST_CONTINUE_STATEMENT" -> Outcome(env, "continue")
      [] node.type \in {"AST_PROGRAM", "AST_BLOCK_STATEMENT"} ->
            MeaningOfList(node.kids, 1, env, fuel)
      [] node.type = "AST_IF_STATEMENT" ->
            IF mjs_to_boolean(ValueOf(node.kids[1], env))
            THEN Meaning(node.kids[2], env, fuel)
            ELSE IF Len(node.kids) = 3
            THEN Meaning(node.kids[3], env, fuel)
            ELSE Outcome(env, "normal")
      [] node.type = "AST_WHILE_STATEMENT" ->
            IF fuel = 0 \/ ~mjs_to_boolean(ValueOf(node.kids[1], env))
            THEN Outcome(env, "normal")
            ELSE MeaningOfLoop(node, Meaning(node.kids[2], env, fuel), fuel)

Meant(ast) ==
    Meaning(ast, [name \in ControlNames |-> mjs_value_undefined],
            MaxControlSteps).env

RECURSIVE Escaping(_)
Escaping(node) ==
    \/ node.type \in {"AST_BREAK_STATEMENT", "AST_CONTINUE_STATEMENT"}
    \/ /\ node.type \in {"AST_PROGRAM", "AST_BLOCK_STATEMENT",
                         "AST_IF_STATEMENT", "AST_WHILE_STATEMENT"}
       /\ \E i \in DOMAIN node.kids : Escaping(node.kids[i])

Finished == run.phase = "returned" /\ compiled.phase = "done"

AsMeant ==
    /\ run.code = MJS_OK
    /\ \A name \in ControlNames :
          vm_get_variable(vm, name) = Meant(compiled.ast)[name]

(* C38: a compiled program of if and while statements (without break and
   continue) that has run to its end leaves every variable as the statements
   mean: the consequent ran exactly when the test was truthy, the alternate
   exactly when it was falsy, the loop body exactly while the test was
   truthy, and the statement after went on in every case; every jump of the
   block aims at an instruction of the block or at its end. *)
C38_TestsAndLoops ==
    /\ (Finished /\ ~Escaping(compiled.ast)) => AsMeant
    /\ compiled.phase = "done" =>
          \A i \in DOMAIN compiled.bytecode.instructions :
              compiled.bytecode.instructions[i].opcode
                    \in {"OP_JUMP", "OP_JUMP_IF_FALSE"}
              => compiled.bytecode.instructions[i].operand
                    \in 0..(Len(compiled.bytecode.instructions) - 1)

\* a loop whose body ran twice, with a test inside, and the statement after it
C38_Witness ==
    /\ Finished
    /\ Len(compiled.ast.kids) = 3
    /\ compiled.ast.kids[2].type = "AST_WHILE_STATEMENT"
    /\ compiled.ast.kids[2].kids[2].kids # << >>
    /\ compiled.ast.kids[2].kids[2].kids[1].type = "AST_IF_STATEMENT"
    /\ vm_get_variable(vm, "a") = mjs_value_number(1)
    /\ vm_get_variable(vm, "t") = mjs_value_number(0)
    /\ vm_get_variable(vm, "c") = mjs_value_number(1)

(* C39: a compiled program with break or continue in a loop that has run to
   its end leaves every variable as the statements mean: nothing of the loop
   runs after a break, and a continue goes on with the test. *)
C39_BreakAndContinue ==
    (Finished /\ Escaping(compiled.ast)) => AsMeant

====
